---- MODULE Spec2Model ----
(***************************************************************************)
(* athenut-mint: the payment backends of the mint.                         *)
(*                                                                         *)
(*   - the currency conversion cents_to_msats (cdk_wallet.rs, cln.rs)      *)
(*   - the wallet-backed adapter CashuWalletBackend (cdk_wallet.rs): the   *)
(*     incoming payment request, the pool of pending wait tasks            *)
(*     (pending_mints), the merged event stream and the status check.      *)
(*   - the Lightning-node adapter Cln (cln.rs): the invoice notification   *)
(*     stream with its cursor and cancellation, and make_payment with its  *)
(*     status check.                                                       *)
(*                                                                         *)
(* Numbers are the program's own; TLC evaluates integers in 32 bits, so    *)
(* the u128 quotient of cents_to_msats is computed by long division, which *)
(* gives the same quotient and remainder without the large product.        *)
(***************************************************************************)
EXTENDS Integers, Sequences, FiniteSets, TLC

\* ------------------------------------------------------------------ bounds
MaxCents == 9
MinPrice == 99996
MaxPrice == 100000
MaxQuotes == 1
MaxAmount == 1
MaxRestartTasks == 1
MaxInvoices == 2
MaxFee == 2
MaxPayRpcs == 2
MaxRequests == 2
MaxRemoteQueries == 3
MaxSearches == 3
MaxTokenValue == 2

\* cost_per_xsr_cents, the constructor parameter of CashuWalletBackend
CostPerXsrCents == 1

Cents == 0..MaxCents
Prices == MinPrice..MaxPrice
Quotes == 1..MaxQuotes
Amounts == 1..MaxAmount
None == "None"

\* IncomingPaymentOptions
PaymentOptions == {"Bolt11", "Bolt12"}

\* struct IncomingPaymentInfo
IncomingPaymentInfo(cost_sats, amount_xsr) ==
    [cost_sats |-> cost_sats, amount_xsr |-> amount_xsr]

VARIABLES
    conv,          \* the conversion under test: inputs, results (a set each), panics
    mint,          \* upstream mint: state of each quote
    kv,            \* wallet.localstore key-value store: quote id -> Option<record>
    kv_reads,      \* what each kv_read of a quote's record answered, in order
    call,          \* the create_incoming_payment_request call in progress
    returned,      \* quotes whose invoice create_incoming_payment_request returned
    tasks,         \* every wait task ever spawned (tokio::spawn), by task id
    pending_mints, \* the pool: ids of the tasks whose JoinHandle it holds
    lock,          \* holder of the pending_mints mutex
    reader,        \* the single logical reader of wait_payment_event
    events,        \* Event::PaymentReceived items the stream has yielded
    check,         \* the check_incoming_payment_status call in progress
    confirmations, \* entries check_incoming_payment_status has returned
    response,      \* the value the step just taken returned to its caller, if any
    invoices,      \* Lightning node: its invoices, in the order of listinvoices
    stream,        \* Cln: the state of the unfold of wait_any_incoming_payment
    wait_invoice_cancel_token, \* Cln: the CancellationToken has been cancelled
    wait_invoice_is_active,    \* Cln: the AtomicBool
    yielded,       \* the items the current stream has yielded
    seen_before,   \* the invoices the streams before it have yielded
    skipped,       \* the bolt12 notifications the current stream has skipped
    pays,          \* Lightning node: the state of the payment of each hash
    melt,          \* Cln: the make_payment calls in progress, by caller
    cln_client,    \* Cln: the holder of the Mutex of the shared client
    pay_rpcs,      \* the Pay requests sent to the node
    cln_call,      \* Cln: the incoming-side call in progress on the shared client
    wallet_pay,    \* the outgoing-side call of the wallet adapter in progress
    remote_queries, \* the queries sent to the search service, in order
    issued_ids,    \* the lookup ids (Uuid::new_v4) given out
    wait_invoice_active, \* CashuWalletBackend: the AtomicBool
    cancelled_at,  \* the number of events delivered when cancel_wait_invoice was last called
    search,        \* the get_search handler in progress
    search_log,    \* the requests get_search has answered, with what was done for each
    add_search_tasks, \* the add_search tasks get_search has spawned, by task id
    search_count,  \* the mint's store: the value under the search count key (an Option)
    store_tx,      \* the mint's store: the task holding its write transaction
    count_at_start \* the value under the search count key when the server started

walletPayVars == <<wallet_pay, remote_queries, issued_ids>>
walletFlagVars == <<wait_invoice_active, cancelled_at>>
walletVars == <<mint, kv, kv_reads, call, returned, tasks, pending_mints, lock,
                reader, events, check, confirmations, response, walletPayVars,
                walletFlagVars>>
clnStreamVars == <<invoices, stream, wait_invoice_cancel_token,
                   wait_invoice_is_active, yielded, seen_before, skipped>>
clnPayVars == <<pays, melt, cln_client, pay_rpcs, cln_call>>
clnVars == <<clnStreamVars, clnPayVars>>
searchVars == <<search, search_log, add_search_tasks, search_count, store_tx,
                count_at_start>>
vars == <<conv, walletVars, clnVars, searchVars>>

\* ------------------------------------------------------- currency conversion

\* floor(n * 10^k / d) and its remainder, digit by digit:
\* n * 10^k = q * d + r with 0 <= r < d
RECURSIVE LongDiv(_, _, _, _)
LongDiv(q, r, k, d) ==
    IF k = 0 THEN [q |-> q, r |-> r]
    ELSE LongDiv(q * 10 + ((r * 10) \div d), (r * 10) % d, k - 1, d)

\* (cents as u128 * 100_000_000_000u128) / bitcoin_price_cents as u128
MsatsQuotRem(cents, btc_price_dollars) ==
    LET bitcoin_price_cents == btc_price_dollars * 100
    IN  LongDiv(cents \div bitcoin_price_cents, cents % bitcoin_price_cents,
                11, bitcoin_price_cents)

\* u128::div_ceil
div_ceil(a, b) == IF a % b > 0 THEN (a \div b) + 1 ELSE a \div b

\* cdk_wallet.rs: fn cents_to_msats(cents, btc_price_dollars) -> u64
cents_to_msats(cents, btc_price_dollars) ==
    LET msats == MsatsQuotRem(cents, btc_price_dollars).q
        rounded_sats == div_ceil(msats, 1000)
        rounded_msats == rounded_sats * 1000
    IN  rounded_msats

\* a copy that adds 1000 where the other rounds up
cln_cents_to_msats_plus1000(cents, btc_price_dollars) ==
    LET msats == MsatsQuotRem(cents, btc_price_dollars).q
        rounded_sats == (msats + 1000) \div 1000
        rounded_msats == rounded_sats * 1000
    IN  rounded_msats

\* cln.rs: fn cents_to_msats(cents, btc_price_dollars) -> Result<u64, Error>
cln_cents_to_msats(cents, btc_price_dollars) ==
    LET msats == MsatsQuotRem(cents, btc_price_dollars).q
        rounded_sats == (msats + 999) \div 1000
        rounded_msats == rounded_sats * 1000
    IN  rounded_msats

\* `/ bitcoin_price_cents as u128`: the integer division panics ("attempt to
\* divide by zero") when the divisor is zero
DivisionByZero(btc_price_dollars) == btc_price_dollars * 100 = 0

\* Amount::new(msats, Msat).convert_to(&Sat)
MsatToSat(msats) == msats \div 1000

\* ------------------------------------------------- CashuWalletBackend state

IdleCall == [pc |-> "idle", option |-> "none", amount |-> 0, amount_sats |-> 0,
             quote |-> 0, handle |-> 0]

IdleCheck == [pc |-> "idle", quote |-> 0]

\* a value returned to the caller of `op`: Ok(...) or the Err variant
Response(op, option, result) == [op |-> op, option |-> option, result |-> result]

\* the step returns nothing to a caller
NoResponse == response' = Response("none", "none", "none")

\* no outgoing-side call of the wallet adapter in progress; the fields of the
\* MakePaymentResponse are Options
IdleWalletPay == [pc |-> "idle", op |-> "none", request |-> 0, result |-> "none",
                  payment_lookup_id |-> {}, payment_proof |-> {}, total_spent |-> {}]

\* CashuWalletBackend::new: an empty pool; the upstream mint knows no quote
WalletInit ==
    /\ mint = [q \in Quotes |-> "absent"]
    /\ kv = [q \in Quotes |-> {}]
    /\ kv_reads = [q \in Quotes |-> << >>]
    /\ call = IdleCall
    /\ returned = {}
    /\ tasks = << >>
    /\ pending_mints = {}
    /\ lock = None
    /\ reader = "none"
    /\ events = << >>
    /\ check = IdleCheck
    /\ confirmations = {}
    /\ response = Response("none", "none", "none")
    /\ wallet_pay = IdleWalletPay
    /\ wait_invoice_active = FALSE
    /\ cancelled_at = {}
    /\ remote_queries = << >>
    /\ issued_ids = {}

\* ----------------------------------------------------------------- Cln state

\* the state of the stream of wait_any_incoming_payment: where the unfold
\* closure is, its last_pay_idx (an Option) and the payment_hash it looks up
NoStream == [pc |-> "none", last_pay_idx |-> {}, payment_hash |-> 0,
             expired_at |-> {}]

\* Cln::new, the notification side: no stream, the token not cancelled, the
\* flag false; the node has no invoice yet
ClnStreamInit ==
    /\ invoices = << >>
    /\ stream = NoStream
    /\ wait_invoice_cancel_token = FALSE
    /\ wait_invoice_is_active = FALSE
    /\ yielded = << >>
    /\ seen_before = {}
    /\ skipped = {}

\* the concurrent callers of make_payment
Callers == {1, 2}

\* a make_payment call that has not started
IdleMelt == [pc |-> "idle", max_fee |-> {}, status |-> "none", result |-> "none"]

\* Cln::new, the payment side: the client unlocked, no call in progress; the
\* node has no payment for the invoice
\* no incoming-side call of Cln in progress
IdleClnCall == [pc |-> "idle", op |-> "none", unit |-> "none", payment_hash |-> 0,
                listed |-> {}, result |-> "none"]

ClnPayInit ==
    /\ cln_call = IdleClnCall
    /\ pays = "none"
    /\ melt = [c \in Callers |-> IdleMelt]
    /\ cln_client = {}
    /\ pay_rpcs = << >>

ClnInit == ClnStreamInit /\ ClnPayInit

\* --- the conversion applied to bounded inputs
ConvInit ==
    /\ conv \in [cents : Cents, price : Prices \cup {0}, wallet : {{}}, cln : {{}},
                 panicked : {{}}]
    /\ WalletInit
    /\ ClnInit
    /\ search = [pc |-> "idle", request |-> [header |-> "absent", value |-> 0],
                 melt_requested |-> FALSE]
    /\ search_log = << >>
    /\ add_search_tasks = << >>
    /\ search_count = {}
    /\ store_tx = {}
    /\ count_at_start = {}

ConvWallet ==
    /\ conv.wallet = {}
    /\ "wallet" \notin conv.panicked
    /\ conv' = IF DivisionByZero(conv.price)
               THEN [conv EXCEPT !.panicked = @ \cup {"wallet"}]
               ELSE [conv EXCEPT !.wallet = {cents_to_msats(conv.cents, conv.price)}]
    /\ UNCHANGED <<walletVars, clnVars, searchVars>>

ConvCln ==
    /\ conv.cln = {}
    /\ "cln" \notin conv.panicked
    /\ conv' = IF DivisionByZero(conv.price)
               THEN [conv EXCEPT !.panicked = @ \cup {"cln"}]
               ELSE [conv EXCEPT !.cln = {cln_cents_to_msats(conv.cents, conv.price)}]
    /\ UNCHANGED <<walletVars, clnVars, searchVars>>

ConvNext == ConvWallet \/ ConvCln

ConvSpec == ConvInit /\ [][ConvNext]_vars

\* ------------------------------------------- create_incoming_payment_request

\* the quote id the upstream mint hands out next
NextQuote ==
    CHOOSE q \in Quotes :
        mint[q] = "absent" /\ \A o \in Quotes : o < q => mint[o] # "absent"

\* the call returns: Ok(CreateIncomingPaymentResponse) or Err(result)
Return(option, result) ==
    /\ call' = IdleCall
    /\ response' = Response("create", option, result)

\* the match on options: only Bolt11 carries on to the price fetch
AcceptsOption_any(option) == TRUE

AcceptsOption(option) == option = "Bolt11"

\* lines 106-111: the match on the payment option fails
CreateCallUnsupported(option) ==
    /\ call.pc = "idle"
    /\ ~AcceptsOption(option)
    /\ Return(option, "UnsupportedPaymentOption")
    /\ UNCHANGED <<conv, searchVars, clnVars, walletPayVars, walletFlagVars, mint, kv, kv_reads, returned, tasks, pending_mints, lock, reader,
                   events, check, confirmations>>

\* lines 106-120: the option is matched, get_usd_price() answers,
\* cents_to_msats and convert_to(Sat) give the cost, wallet.mint_quote is sent
CreateCall(option, amount, usd_price) ==
    /\ call.pc = "idle"
    /\ AcceptsOption(option)
    /\ \E q \in Quotes : mint[q] = "absent"
    /\ LET msats == cents_to_msats(CostPerXsrCents * amount, usd_price)
           amount_sats == MsatToSat(msats)
       IN  call' = [IdleCall EXCEPT !.pc = "mint_quote", !.option = option,
                                    !.amount = amount, !.amount_sats = amount_sats]
    /\ UNCHANGED <<conv, searchVars, clnVars, walletPayVars, walletFlagVars, mint, kv, kv_reads, returned, tasks, pending_mints, lock, reader,
                   events, check, confirmations>>
    /\ NoResponse

\* lines 106-115: the option is matched, get_usd_price() fails,
\* map_err(Error::Lightning)?
CreateCallPriceErr(option) ==
    /\ call.pc = "idle"
    /\ AcceptsOption(option)
    /\ Return(option, "Lightning")
    /\ UNCHANGED <<conv, searchVars, clnVars, walletPayVars, walletFlagVars, mint, kv, kv_reads, returned, tasks, pending_mints, lock, reader,
                   events, check, confirmations>>

\* lines 120-151: the upstream mint creates the quote (the wallet stores it
\* as an unissued quote), kv_write(...) is sent
MintQuoteOk ==
    /\ call.pc = "mint_quote"
    /\ mint' = [mint EXCEPT ![NextQuote] = "Unpaid"]
    /\ call' = [call EXCEPT !.pc = "kv_write", !.quote = NextQuote]
    /\ UNCHANGED <<conv, searchVars, clnVars, walletPayVars, walletFlagVars, kv, kv_reads, returned, tasks, pending_mints, lock, reader,
                   events, check, confirmations>>
    /\ NoResponse

\* lines 120-129: mint_quote fails, map_err(Error::Lightning)?
MintQuoteErr ==
    /\ call.pc = "mint_quote"
    /\ Return(call.option, "Lightning")
    /\ UNCHANGED <<conv, searchVars, clnVars, walletPayVars, walletFlagVars, mint, kv, kv_reads, returned, tasks, pending_mints, lock, reader,
                   events, check, confirmations>>

\* the wait task of lines 158-176, as spawned
CreateTask(quote_id, original_amount) ==
    [quote |-> quote_id, kind |-> "create", original_amount |-> original_amount,
     st |-> "running", payment_amount |-> 0, harvested |-> 0]

\* lines 142-178: the record is written, the wait task is spawned
\* (tokio::spawn starts it), pending_mints.lock() is requested
KvWriteOk ==
    /\ call.pc = "kv_write"
    /\ kv' = [kv EXCEPT ![call.quote] =
                 {IncomingPaymentInfo(call.amount_sats, call.amount)}]
    /\ tasks' = Append(tasks, CreateTask(call.quote, call.amount))
    /\ call' = [call EXCEPT !.pc = "lock", !.handle = Len(tasks) + 1]
    /\ UNCHANGED <<conv, searchVars, clnVars, walletPayVars, walletFlagVars, mint, kv_reads, returned, pending_mints, lock,
                   reader, events, check, confirmations>>
    /\ NoResponse

\* a kv_write failure that is dropped instead of returned
KvWriteErr_ignored ==
    /\ call.pc = "kv_write"
    /\ tasks' = Append(tasks, CreateTask(call.quote, call.amount))
    /\ call' = [call EXCEPT !.pc = "lock", !.handle = Len(tasks) + 1]
    /\ UNCHANGED <<conv, searchVars, clnVars, walletPayVars, walletFlagVars, mint, kv, kv_reads, returned, pending_mints, lock, reader, events,
                   check, confirmations>>
    /\ NoResponse

\* lines 142-151: kv_write fails, map_err(Error::Lightning)?
KvWriteErr ==
    /\ call.pc = "kv_write"
    /\ Return(call.option, "Lightning")
    /\ UNCHANGED <<conv, searchVars, clnVars, walletPayVars, walletFlagVars, mint, kv, kv_reads, returned, tasks, pending_mints, lock, reader,
                   events, check, confirmations>>

\* lines 178-187: the pool lock is acquired, the handle pushed, the invoice
\* returned (the guard is dropped with the function's scope)
CreateLockPush ==
    /\ call.pc = "lock"
    /\ lock = None
    /\ pending_mints' = pending_mints \cup {call.handle}
    /\ returned' = returned \cup {call.quote}
    /\ Return(call.option, "Ok")
    /\ UNCHANGED <<conv, searchVars, clnVars, walletPayVars, walletFlagVars, mint, kv, kv_reads, tasks, lock, reader, events, check,
                   confirmations>>

\* ------------------------------------------------------------ the wait tasks

\* WaitPaymentResponse { payment_identifier, payment_amount, payment_id }
WaitPaymentResponse(quote_id, payment_amount) ==
    [quote |-> quote_id, amount |-> payment_amount]

\* a creation task that answers Some when the mint was refused as well
CreateTaskResult_always(ok, original_amount) == {original_amount}

\* lines 168-175: the result of the task spawned at creation, as an Option
CreateTaskResult(ok, original_amount) ==
    IF ok THEN {original_amount} ELSE {}

\* the amount taken from the record read back
RecordAmount_cost(cost_info) == cost_info.cost_sats

RecordAmount(cost_info) == cost_info.amount_xsr

\* a match that answers Some on Err(_) as well
RestartTaskResult_always(ok, kv_read) ==
    {RecordAmount(cost_info) : cost_info \in kv_read}

\* lines 253-282: the result of a re-registered task, as an Option: on Ok the
\* record is read back, and a missing record gives None
RestartTaskResult(ok, kv_read) ==
    IF ok THEN {RecordAmount(cost_info) : cost_info \in kv_read} ELSE {}

\* the result of task t when wait_and_mint_quote answered `ok` and the
\* kv_read, if the task makes one, answered `kv_read`
TaskResult(t, ok, kv_read) ==
    IF tasks[t].kind = "create"
    THEN CreateTaskResult(ok, tasks[t].original_amount)
    ELSE RestartTaskResult(ok, kv_read)

\* a kv_read of the record of quote_id has answered `kv_read`: Some(record),
\* or nothing usable
LogRead(quote_id, kv_read) ==
    [kv_reads EXCEPT ![quote_id] =
         Append(@, IF kv_read = {} THEN "None" ELSE "Some")]

\* the task finishes with the Option `result`
Resolve(t, result) ==
    [tasks EXCEPT ![t].st = IF result = {} THEN "None" ELSE "Some",
                  ![t].payment_amount = IF result = {} THEN 0
                                        ELSE CHOOSE a \in result : TRUE]

\* wait_and_mint_quote returns Ok: the quote is paid and this task's mint
\* request is the one the upstream mint serves
TaskMintOk(t) ==
    /\ t \in 1..Len(tasks)
    /\ tasks[t].st = "running"
    /\ mint[tasks[t].quote] = "Paid"
    /\ mint' = [mint EXCEPT ![tasks[t].quote] = "Issued"]
    /\ tasks' = Resolve(t, TaskResult(t, TRUE, kv[tasks[t].quote]))
    /\ kv_reads' = IF tasks[t].kind = "restart"
                   THEN LogRead(tasks[t].quote, kv[tasks[t].quote])
                   ELSE kv_reads
    /\ UNCHANGED <<conv, searchVars, clnVars, walletPayVars, walletFlagVars, kv, call, returned, pending_mints, lock, reader,
                   events, check, confirmations>>
    /\ NoResponse

\* lines 253-270: wait_and_mint_quote returns Ok to a re-registered task and
\* its kv_read gives nothing usable: the store answers Err (.ok()?) or the
\* bytes do not decode (.ok()?); the task resolves to None
TaskMintOkKvReadErr(t) ==
    /\ t \in 1..Len(tasks)
    /\ tasks[t].st = "running"
    /\ tasks[t].kind = "restart"
    /\ mint[tasks[t].quote] = "Paid"
    /\ mint' = [mint EXCEPT ![tasks[t].quote] = "Issued"]
    /\ tasks' = Resolve(t, TaskResult(t, TRUE, {}))
    /\ kv_reads' = LogRead(tasks[t].quote, {})
    /\ UNCHANGED <<conv, searchVars, clnVars, walletPayVars, walletFlagVars, kv, call, returned, pending_mints, lock, reader,
                   events, check, confirmations>>
    /\ NoResponse

\* a wait without a timeout: the task of an unpaid quote keeps waiting
TaskErr_waits(t) ==
    /\ t \in 1..Len(tasks)
    /\ tasks[t].st = "running"
    /\ mint[tasks[t].quote] # "Paid"
    /\ UNCHANGED vars

\* wait_and_mint_quote returns Err: the timeout (500 s, 5 s) passes without a
\* payment, or the quote has been issued to another request.  (A timeout or
\* a rail error that comes just as the quote is paid leaves the task None and
\* the quote Paid: the state this step followed by PayInvoice reaches.)
TaskErr(t) ==
    /\ t \in 1..Len(tasks)
    /\ tasks[t].st = "running"
    /\ mint[tasks[t].quote] # "Paid"
    /\ tasks' = Resolve(t, TaskResult(t, FALSE, kv[tasks[t].quote]))
    /\ UNCHANGED <<conv, searchVars, clnVars, walletPayVars, walletFlagVars, mint, kv, kv_reads, call, returned, pending_mints, lock, reader,
                   events, check, confirmations>>
    /\ NoResponse

\* the payer pays an invoice it has been given
PayInvoice(q) ==
    /\ q \in returned
    /\ mint[q] = "Unpaid"
    /\ mint' = [mint EXCEPT ![q] = "Paid"]
    /\ UNCHANGED <<conv, searchVars, clnVars, walletPayVars, walletFlagVars, kv, kv_reads, call, returned, tasks, pending_mints, lock, reader,
                   events, check, confirmations>>
    /\ NoResponse

\* --------------------------------------------------------- wait_payment_event

\* a scan that keeps only the quotes still waiting for their payment
get_unissued_mint_quotes_unpaid == {q \in Quotes : mint[q] = "Unpaid"}

\* wallet.get_unissued_mint_quotes(): the quotes of the wallet's store that
\* have not been minted
get_unissued_mint_quotes == {q \in Quotes : mint[q] \in {"Unpaid", "Paid"}}

\* the wait task of lines 242-283, as spawned
RestartTask(quote_id) ==
    [quote |-> quote_id, kind |-> "restart", original_amount |-> 0,
     st |-> "running", payment_amount |-> 0, harvested |-> 0]

\* the re-registered tasks spawned so far (a cap on the model)
NumRestartTasks ==
    Cardinality({t \in 1..Len(tasks) : tasks[t].kind = "restart"})

\* the quotes of a set in the order of the Vec
RECURSIVE InOrder(_)
InOrder(qs) ==
    IF qs = {} THEN << >>
    ELSE LET q == CHOOSE x \in qs : \A y \in qs : x <= y
         IN  <<q>> \o InOrder(qs \ {q})

\* lines 239-311: the unissued quotes are scanned, a task is spawned and
\* pushed for each (the single reader has dropped the previous stream, so the
\* pool lock is free), and the stream is returned
WaitPaymentEventCall ==
    /\ reader = "none"
    /\ NumRestartTasks + Cardinality(get_unissued_mint_quotes) <= MaxRestartTasks
    /\ LET unissed_quotes == InOrder(get_unissued_mint_quotes)
           spawned == [i \in 1..Len(unissed_quotes) |-> RestartTask(unissed_quotes[i])]
       IN  /\ tasks' = tasks \o spawned
           /\ pending_mints' = pending_mints \cup (Len(tasks) + 1 .. Len(tasks) + Len(spawned))
    /\ reader' = "ready"
    /\ UNCHANGED <<conv, searchVars, clnVars, walletPayVars, walletFlagVars, mint, kv, kv_reads, call, returned, lock, events, check,
                   confirmations>>
    /\ NoResponse

\* line 239: get_unissued_mint_quotes fails, the `if let Ok` is skipped and
\* the stream is returned with nothing re-registered
WaitPaymentEventScanErr ==
    /\ reader = "none"
    /\ reader' = "ready"
    /\ UNCHANGED <<conv, searchVars, clnVars, walletPayVars, walletFlagVars, mint, kv, kv_reads, call, returned, tasks, pending_mints, lock,
                   events, check, confirmations>>
    /\ NoResponse

\* the tasks of the pool that have finished
Finished == {t \in pending_mints : tasks[t].st # "running"}

\* a next() that leaves the finished future in the set
PoolAfterNext_keep(pool, t) == pool

\* FuturesUnordered::next() hands out a finished future and removes it
PoolAfterNext(pool, t) == pool \ {t}

\* a JoinHandle whose output next() has handed out: the output is moved out
\* of it; the record keeps what the task was and how often it was taken
Taken(task) ==
    [task EXCEPT !.original_amount = 0, !.payment_amount = 0,
                 !.harvested = @ + 1]

\* lines 295-302 and the filter_map of line 309: the JoinHandle's output is
\* taken out of the pool; Ok(Some(response)) is yielded, Ok(None) is not
Harvest(t) ==
    /\ pending_mints' = PoolAfterNext(pending_mints, t)
    /\ tasks' = [tasks EXCEPT ![t] = Taken(tasks[t])]
    /\ events' = IF tasks[t].st = "Some"
                 THEN Append(events, WaitPaymentResponse(tasks[t].quote,
                                                         tasks[t].payment_amount))
                 ELSE events

\* lines 292-307: the reader pulls: the lock is taken and next() is polled.
\* An empty pool answers None at once (lock dropped, sleep 100 ms); a
\* finished task is harvested (lock dropped); otherwise next() is pending
\* and the pull is suspended with the guard alive.
StreamPull ==
    /\ reader = "ready"
    /\ lock = None
    /\ IF pending_mints = {}
       THEN /\ reader' = "sleep"
            /\ UNCHANGED <<tasks, pending_mints, events, lock>>
       ELSE IF Finished # {}
       THEN /\ \E t \in Finished : Harvest(t)
            /\ UNCHANGED <<reader, lock>>
       ELSE /\ reader' = "next"
            /\ lock' = "stream"
            /\ UNCHANGED <<tasks, pending_mints, events>>
    /\ UNCHANGED <<conv, searchVars, clnVars, walletPayVars, walletFlagVars, mint, kv, kv_reads, call, returned, check, confirmations>>
    /\ NoResponse

\* lines 295-302: a task of the pool finishes and wakes the suspended pull
StreamNext ==
    /\ reader = "next"
    /\ \E t \in Finished : Harvest(t)
    /\ lock' = None
    /\ reader' = "ready"
    /\ UNCHANGED <<conv, searchVars, clnVars, walletPayVars, walletFlagVars, mint, kv, kv_reads, call, returned, check, confirmations>>
    /\ NoResponse

\* lines 305-306: the idle sleep is over
StreamSleepDone ==
    /\ reader = "sleep"
    /\ reader' = "ready"
    /\ UNCHANGED <<conv, searchVars, clnVars, walletPayVars, walletFlagVars, mint, kv, kv_reads, call, returned, tasks, pending_mints, lock,
                   events, check, confirmations>>
    /\ NoResponse

\* the reader drops the stream (and with it a pull in progress and its
\* guard) before it calls wait_payment_event again.  (The guard caps the
\* model: the tasks of the next call fit into MaxRestartTasks.)
DropStream ==
    /\ reader \in {"ready", "next", "sleep"}
    /\ NumRestartTasks + Cardinality({q \in Quotes : mint[q] # "Issued"})
           <= MaxRestartTasks
    /\ reader' = "none"
    /\ lock' = None
    /\ UNCHANGED <<conv, searchVars, clnVars, walletPayVars, walletFlagVars, mint, kv, kv_reads, call, returned, tasks, pending_mints, events,
                   check, confirmations>>
    /\ NoResponse

\* ---------------------------------------------- check_incoming_payment_status

\* lines 326-329: an identifier that is not a CustomId
CheckCallUnsupported ==
    /\ check.pc = "idle"
    /\ check' = IdleCheck
    /\ response' = Response("check", "PaymentHash", "UnsupportedPaymentOption")
    /\ UNCHANGED <<conv, searchVars, clnVars, walletPayVars, walletFlagVars, mint, kv, kv_reads, call, returned, tasks, pending_mints, lock,
                   reader, events, confirmations>>

\* lines 326-343, 367: check_mint_quote_status answers: Paid goes on to
\* wallet.mint, any other state returns the empty list, an unknown quote is
\* an error
CheckCall(q) ==
    /\ check.pc = "idle"
    /\ IF mint[q] = "Paid"
       THEN /\ check' = [pc |-> "mint", quote |-> q]
            /\ NoResponse
       ELSE /\ check' = IdleCheck
            /\ response' = Response("check", "CustomId",
                                    IF mint[q] = "absent" THEN "Lightning" ELSE "Empty")
    /\ UNCHANGED <<conv, searchVars, clnVars, walletPayVars, walletFlagVars, mint, kv, kv_reads, call, returned, tasks, pending_mints, lock,
                   reader, events, confirmations>>

\* a check that removes the record it has read
CheckMint_removes ==
    /\ check.pc = "mint"
    /\ check' = IdleCheck
    /\ IF mint[check.quote] = "Paid"
       THEN /\ mint' = [mint EXCEPT ![check.quote] = "Issued"]
            /\ kv_reads' = LogRead(check.quote, kv[check.quote])
            /\ kv' = [kv EXCEPT ![check.quote] = {}]
            /\ IF kv[check.quote] = {}
               THEN /\ response' = Response("check", "CustomId", "Internal")
                    /\ UNCHANGED confirmations
               ELSE /\ response' = Response("check", "CustomId", "Paid")
                    /\ confirmations' = confirmations \cup
                          {WaitPaymentResponse(check.quote, RecordAmount(cost_info)) :
                               cost_info \in kv[check.quote]}
       ELSE /\ response' = Response("check", "CustomId", "Lightning")
            /\ UNCHANGED <<mint, kv, kv_reads, confirmations>>
    /\ UNCHANGED <<conv, searchVars, clnVars, walletPayVars, walletFlagVars, call, returned, tasks, pending_mints, lock,
                   reader, events>>

\* lines 339-365: wallet.mint: served if the quote is still Paid, then the
\* record is read back and the confirmation returned; a missing record and
\* a refused mint are errors
CheckMint ==
    /\ check.pc = "mint"
    /\ check' = IdleCheck
    /\ IF mint[check.quote] = "Paid"
       THEN /\ mint' = [mint EXCEPT ![check.quote] = "Issued"]
            /\ kv_reads' = LogRead(check.quote, kv[check.quote])
            /\ IF kv[check.quote] = {}
               THEN /\ response' = Response("check", "CustomId", "Internal")
                    /\ UNCHANGED confirmations
               ELSE /\ response' = Response("check", "CustomId", "Paid")
                    /\ confirmations' = confirmations \cup
                          {WaitPaymentResponse(check.quote, RecordAmount(cost_info)) :
                               cost_info \in kv[check.quote]}
       ELSE /\ response' = Response("check", "CustomId", "Lightning")
            /\ UNCHANGED <<mint, kv_reads, confirmations>>
    /\ UNCHANGED <<conv, searchVars, clnVars, walletPayVars, walletFlagVars, kv, call, returned, tasks, pending_mints, lock,
                   reader, events>>

\* a failed read whose quote is confirmed all the same, with no amount
CheckMintKvReadErr_credits ==
    /\ check.pc = "mint"
    /\ mint[check.quote] = "Paid"
    /\ check' = IdleCheck
    /\ mint' = [mint EXCEPT ![check.quote] = "Issued"]
    /\ kv_reads' = LogRead(check.quote, {})
    /\ response' = Response("check", "CustomId", "Paid")
    /\ confirmations' = confirmations \cup {WaitPaymentResponse(check.quote, 0)}
    /\ UNCHANGED <<conv, searchVars, clnVars, walletPayVars, walletFlagVars, kv, call, returned, tasks, pending_mints, lock,
                   reader, events>>

\* lines 339-356: wallet.mint is served and the kv_read gives nothing usable:
\* the store answers Err or the bytes do not decode; the error is returned
\* with ?
CheckMintKvReadErr ==
    /\ check.pc = "mint"
    /\ mint[check.quote] = "Paid"
    /\ check' = IdleCheck
    /\ mint' = [mint EXCEPT ![check.quote] = "Issued"]
    /\ kv_reads' = LogRead(check.quote, {})
    /\ response' = Response("check", "CustomId", "Internal")
    /\ UNCHANGED <<conv, searchVars, clnVars, walletPayVars, walletFlagVars, kv, call, returned, tasks, pending_mints, lock,
                   reader, events, confirmations>>

\* ------------------------------------- the wallet adapter's outgoing side

\* OutgoingPaymentOptions
OutgoingPaymentOptions == {"Bolt11", "Bolt12", "Custom"}

\* options.request of a Custom option: the query
Requests == 1..MaxRequests

\* lines 189-200: get_payment_quote: amount 1, fee 0, state Unpaid
WalletGetPaymentQuote ==
    /\ wallet_pay.pc = "idle"
    /\ wallet_pay' = [IdleWalletPay EXCEPT !.op = "get_payment_quote",
                                           !.result = "Unpaid",
                                           !.total_spent = {1}]
    /\ UNCHANGED <<conv, searchVars, clnVars, walletFlagVars, mint, kv, kv_reads, call, returned, tasks,
                   pending_mints, lock, reader, events, check, confirmations,
                   response, remote_queries, issued_ids>>

\* lines 207-220, 232: make_payment is called: with a Custom option the GET
\* with the query is sent; with another option unimplemented!() panics
WalletMakePayment(option, request) ==
    /\ wallet_pay.pc = "idle"
    /\ Len(remote_queries) < MaxRemoteQueries
    /\ IF option = "Custom"
       THEN /\ wallet_pay' = [IdleWalletPay EXCEPT !.pc = "remote",
                                                   !.op = "make_payment",
                                                   !.request = request]
            /\ remote_queries' = Append(remote_queries, request)
       ELSE /\ wallet_pay' = [IdleWalletPay EXCEPT !.op = "make_payment",
                                                   !.result = "PanicUnimplemented"]
            /\ UNCHANGED remote_queries
    /\ UNCHANGED <<conv, searchVars, clnVars, walletFlagVars, mint, kv, kv_reads, call, returned, tasks,
                   pending_mints, lock, reader, events, check, confirmations,
                   response, issued_ids>>

\* what the GET comes to: send() fails (no connection, timeout); a response
\* whose body is not JSON; a response with a JSON body, of a 2xx status or
\* of an error status (send() and json() do not look at the status)
RemoteOutcomes == {"SendErr", "BodyNotJson", "Json2xx", "JsonErrorStatus"}

\* the response body of the service for a query, as a JSON text
Body(request, outcome) == <<request, outcome>>

\* Uuid::new_v4(): an id not given out before
Uuid_new_v4 == Cardinality(issued_ids) + 1

\* lines 217-230: the GET returns: the errors of send() and of json() are
\* returned as Lightning; a JSON body is returned as the proof of a Paid
\* response with a new lookup id and a total of 1 XSR
WalletRemoteAnswer(outcome) ==
    /\ wallet_pay.pc = "remote"
    /\ IF outcome \in {"SendErr", "BodyNotJson"}
       THEN /\ wallet_pay' = [wallet_pay EXCEPT !.pc = "idle", !.result = "Lightning"]
            /\ UNCHANGED issued_ids
       ELSE /\ wallet_pay' = [wallet_pay EXCEPT
                                 !.pc = "idle",
                                 !.result = "Paid",
                                 !.payment_lookup_id = {Uuid_new_v4},
                                 !.payment_proof = {Body(wallet_pay.request, outcome)},
                                 !.total_spent = {1}]
            /\ issued_ids' = issued_ids \cup {Uuid_new_v4}
    /\ UNCHANGED <<conv, searchVars, clnVars, walletFlagVars, mint, kv, kv_reads, call, returned, tasks,
                   pending_mints, lock, reader, events, check, confirmations,
                   response, remote_queries>>

\* lines 371-376: check_outgoing_payment: todo!() panics
WalletCheckOutgoingPayment ==
    /\ wallet_pay.pc = "idle"
    /\ wallet_pay' = [IdleWalletPay EXCEPT !.op = "check_outgoing_payment",
                                           !.result = "PanicTodo"]
    /\ UNCHANGED <<conv, searchVars, clnVars, walletFlagVars, mint, kv, kv_reads, call, returned, tasks,
                   pending_mints, lock, reader, events, check, confirmations,
                   response, remote_queries, issued_ids>>

WalletPayNext ==
    \/ WalletGetPaymentQuote
    \/ \E option \in OutgoingPaymentOptions, request \in Requests :
           WalletMakePayment(option, request)
    \/ \E outcome \in RemoteOutcomes : WalletRemoteAnswer(outcome)
    \/ WalletCheckOutgoingPayment

\* ------------------------------------------------------ the search endpoint

\* what a request to /search carries in X-Cashu: no header; a header that is
\* no visible ASCII text; a text that is no TokenV4; a token whose value()
\* fails (the sum of its proofs overflows); a token of some value
SearchHeaders == {"absent", "not_text", "not_token", "no_value", "token"}

SearchRequests ==
    [header : SearchHeaders \ {"token"}, value : {0}]
        \cup [header : {"token"}, value : 0..MaxTokenValue]

\* lines 192-196: the payment request: unit xsr, amount 1
payment_request == [unit |-> "xsr", amount |-> 1]

\* a response of get_search: the status and the X-Cashu header (an Option)
SearchResponse(status, x_cashu) == [status |-> status, x_cashu |-> x_cashu]

\* lines 199-210: the payment request is base64url text, which always
\* parses as a header value
payment_required_response == SearchResponse(402, {payment_request})

\* a check of the amount that only turns away what is worth less than 1
get_search_early_below1(request) ==
    IF request.header = "absent" THEN {payment_required_response}
    ELSE IF request.header = "not_text" THEN {SearchResponse(500, {})}
    ELSE IF request.header = "not_token" THEN {SearchResponse(400, {})}
    ELSE IF request.header = "no_value" THEN {SearchResponse(400, {})}
    ELSE IF request.value < 1 THEN {payment_required_response}
    ELSE {}

\* lines 212-241: the response with which get_search returns before it asks
\* for a melt quote, if it does (an Option)
get_search_early(request) ==
    IF request.header = "absent" THEN {payment_required_response}
    ELSE IF request.header = "not_text" THEN {SearchResponse(500, {})}
    ELSE IF request.header = "not_token" THEN {SearchResponse(400, {})}
    ELSE IF request.header = "no_value" THEN {SearchResponse(400, {})}
    ELSE IF request.value # 1 THEN {payment_required_response}
    ELSE {}

IdleSearch == [pc |-> "idle", request |-> [header |-> "absent", value |-> 0],
               melt_requested |-> FALSE]

\* an answered request: what came back and what the handler did for it
Answered(request, resp, quote_requested, melt_requested, spent) ==
    [request |-> request, status |-> resp.status, x_cashu |-> resp.x_cashu,
     quote_requested |-> quote_requested, melt_requested |-> melt_requested,
     spent |-> spent]

\* lines 185-256: a request arrives: it is turned away, or get_melt_quote is
\* called
GetSearchCall(request) ==
    /\ search.pc = "idle"
    /\ Len(search_log) < MaxSearches
    /\ IF get_search_early(request) # {}
       THEN /\ \E resp \in get_search_early(request) :
                   search_log' = Append(search_log,
                                        Answered(request, resp, FALSE, FALSE, FALSE))
            /\ UNCHANGED search
       ELSE /\ search' = [IdleSearch EXCEPT !.pc = "get_melt_quote",
                                            !.request = request]
            /\ UNCHANGED search_log
    /\ UNCHANGED <<conv, walletVars, clnVars, add_search_tasks, search_count,
                   store_tx, count_at_start>>

\* lines 252-256: get_melt_quote fails: 500
GetMeltQuoteErr ==
    /\ search.pc = "get_melt_quote"
    /\ search_log' = Append(search_log,
                            Answered(search.request, SearchResponse(500, {}),
                                     TRUE, FALSE, FALSE))
    /\ search' = IdleSearch
    /\ UNCHANGED <<conv, walletVars, clnVars, add_search_tasks, search_count,
                   store_tx, count_at_start>>

\* what token.proofs(&keysets) comes to: an error (a keyset the mint does
\* not have), no proof, proofs
TokenProofs == {"Err", "empty", "proofs"}

\* lines 252-283: the melt quote is there: the proofs are taken from the
\* token (an error is 400, no proof is 402) and melt is called with the first
GetMeltQuoteOk(proofs) ==
    /\ search.pc = "get_melt_quote"
    /\ IF proofs = "Err"
       THEN /\ search_log' = Append(search_log,
                                    Answered(search.request, SearchResponse(400, {}),
                                             TRUE, FALSE, FALSE))
            /\ search' = IdleSearch
       ELSE IF proofs = "empty"
       THEN /\ search_log' = Append(search_log,
                                    Answered(search.request, payment_required_response,
                                             TRUE, FALSE, FALSE))
            /\ search' = IdleSearch
       ELSE /\ search' = [search EXCEPT !.pc = "melt", !.melt_requested = TRUE]
            /\ UNCHANGED search_log
    /\ UNCHANGED <<conv, walletVars, clnVars, add_search_tasks, search_count,
                   store_tx, count_at_start>>

\* lines 283-287: melt fails (the proof is spent already or not valid, the
\* payment failed): 500; the proof is not spent by this melt
MeltErr ==
    /\ search.pc = "melt"
    /\ search_log' = Append(search_log,
                            Answered(search.request, SearchResponse(500, {}),
                                     TRUE, TRUE, FALSE))
    /\ search' = IdleSearch
    /\ UNCHANGED <<conv, walletVars, clnVars, add_search_tasks, search_count,
                   store_tx, count_at_start>>

\* melt_res.payment_preimage of a melt that succeeded: None, or the payment
\* proof of make_payment, the JSON body of the search service of a 2xx or
\* of an error status
MeltPreimages ==
    {{}} \cup {{Body(1, outcome)} : outcome \in {"Json2xx", "JsonErrorStatus"}}

\* line 298: serde_json::from_str::<KagiSearchResponse>: the body of an
\* error status has no meta and data and does not parse (an Option)
KagiSearchResponse_from_str(body) ==
    IF body[2] = "Json2xx" THEN {[meta |-> body[1], data |-> body[1]]} ELSE {}

\* a new add_search task: where it is and its current_count and new_count
NewAddSearch == [pc |-> "begin", current_count |-> 0, new_count |-> 0]

\* lines 283-329: melt succeeded, the proof is spent: without a preimage or
\* with one that is no KagiSearchResponse the answer is 500; otherwise the
\* add_search task is spawned and the results are returned
MeltOk(payment_preimage) ==
    /\ search.pc = "melt"
    /\ LET parsed == IF payment_preimage = {} THEN {}
                     ELSE UNION {KagiSearchResponse_from_str(b) : b \in payment_preimage}
       IN IF parsed = {}
          THEN /\ search_log' = Append(search_log,
                                       Answered(search.request, SearchResponse(500, {}),
                                                TRUE, TRUE, TRUE))
               /\ UNCHANGED add_search_tasks
          ELSE /\ search_log' = Append(search_log,
                                       Answered(search.request, SearchResponse(200, {}),
                                                TRUE, TRUE, TRUE))
               /\ add_search_tasks' = Append(add_search_tasks, NewAddSearch)
    /\ search' = IdleSearch
    /\ UNCHANGED <<conv, walletVars, clnVars, search_count, store_tx, count_at_start>>

\* a begin_transaction that does not wait for the write transaction in
\* progress
AddSearchBegin_shared(t) ==
    /\ add_search_tasks[t].pc = "begin"
    /\ store_tx' = {t}
    /\ add_search_tasks' = [add_search_tasks EXCEPT ![t].pc = "kv_read"]
    /\ UNCHANGED <<conv, walletVars, clnVars, search, search_log, search_count,
                   count_at_start>>

\* line 338: begin_transaction: the write transaction of the store, of
\* which there is one at a time (redb's begin_write, as in db.rs line 33,
\* waits for the one in progress)
AddSearchBegin(t) ==
    /\ add_search_tasks[t].pc = "begin"
    /\ store_tx = {}
    /\ store_tx' = {t}
    /\ add_search_tasks' = [add_search_tasks EXCEPT ![t].pc = "kv_read"]
    /\ UNCHANGED <<conv, walletVars, clnVars, search, search_log, search_count,
                   count_at_start>>

\* lines 340-347: kv_read: the stored count, 0 when there is none
AddSearchKvRead(t) ==
    /\ add_search_tasks[t].pc = "kv_read"
    /\ add_search_tasks' =
           [add_search_tasks EXCEPT
               ![t].pc = "kv_write",
               ![t].current_count = IF search_count = {} THEN 0
                                    ELSE CHOOSE n \in search_count : TRUE]
    /\ UNCHANGED <<conv, walletVars, clnVars, search, search_log, search_count,
                   store_tx, count_at_start>>

\* lines 349-353: kv_write of current_count + 1 into the transaction
AddSearchKvWrite(t) ==
    /\ add_search_tasks[t].pc = "kv_write"
    /\ add_search_tasks' =
           [add_search_tasks EXCEPT
               ![t].pc = "commit",
               ![t].new_count = add_search_tasks[t].current_count + 1]
    /\ UNCHANGED <<conv, walletVars, clnVars, search, search_log, search_count,
                   store_tx, count_at_start>>

\* line 355: commit: the written count is stored and the transaction ends
AddSearchCommit(t) ==
    /\ add_search_tasks[t].pc = "commit"
    /\ search_count' = {add_search_tasks[t].new_count}
    /\ store_tx' = store_tx \ {t}
    /\ add_search_tasks' = [add_search_tasks EXCEPT ![t].pc = "done"]
    /\ UNCHANGED <<conv, walletVars, clnVars, search, search_log, count_at_start>>

\* lines 338-355, 312-314: the store fails in one of the four calls: the
\* task returns the error, which is logged; a transaction it held is
\* dropped with nothing stored
AddSearchErr(t) ==
    /\ add_search_tasks[t].pc \in {"begin", "kv_read", "kv_write", "commit"}
    /\ store_tx' = store_tx \ {t}
    /\ add_search_tasks' = [add_search_tasks EXCEPT ![t].pc = "failed"]
    /\ UNCHANGED <<conv, walletVars, clnVars, search, search_log, search_count,
                   count_at_start>>

\* the server starts with no count stored
SearchInit ==
    /\ search = IdleSearch
    /\ search_log = << >>
    /\ add_search_tasks = << >>
    /\ search_count = {}
    /\ store_tx = {}
    /\ count_at_start = {}

SearchNext ==
    \/ \E request \in SearchRequests : GetSearchCall(request)
    \/ GetMeltQuoteErr
    \/ \E proofs \in TokenProofs : GetMeltQuoteOk(proofs)
    \/ MeltErr
    \/ \E payment_preimage \in MeltPreimages : MeltOk(payment_preimage)
    \/ \E t \in 1..Len(add_search_tasks) : AddSearchBegin(t)
    \/ \E t \in 1..Len(add_search_tasks) : AddSearchKvRead(t)
    \/ \E t \in 1..Len(add_search_tasks) : AddSearchKvWrite(t)
    \/ \E t \in 1..Len(add_search_tasks) : AddSearchCommit(t)
    \/ \E t \in 1..Len(add_search_tasks) : AddSearchErr(t)

\* a count the store may hold when the server starts
StoredCount == 7

\* the search endpoint on a store that holds no count or holds one
SearchStartInit ==
    /\ conv = [cents |-> 0, price |-> MinPrice, wallet |-> {}, cln |-> {},
               panicked |-> {}]
    /\ WalletInit
    /\ ClnInit
    /\ search = IdleSearch
    /\ search_log = << >>
    /\ add_search_tasks = << >>
    /\ count_at_start \in {{}, {StoredCount}}
    /\ search_count = count_at_start
    /\ store_tx = {}

SearchSpec == SearchStartInit /\ [][SearchNext]_vars

\* ------------------------------------------- the wallet adapter's flag

\* a cancel that aborts the wait tasks of the pool and ends the stream
WalletCancelWaitInvoice_stops ==
    /\ wait_invoice_active' = FALSE
    /\ cancelled_at' = {Len(events)}
    /\ pending_mints' = {}
    /\ reader' = "none"
    /\ NoResponse
    /\ UNCHANGED <<conv, searchVars, clnVars, walletPayVars, mint, kv, kv_reads, call, returned,
                   tasks, lock, events, check, confirmations>>

\* lines 318-320: cancel_wait_invoice stores false in the flag
WalletCancelWaitInvoice ==
    /\ wait_invoice_active' = FALSE
    /\ cancelled_at' = {Len(events)}
    /\ NoResponse
    /\ UNCHANGED <<conv, searchVars, clnVars, walletPayVars, mint, kv, kv_reads, call, returned,
                   tasks, pending_mints, lock, reader, events, check, confirmations>>

\* --------------------------------------------------------- the specification
Init ==
    /\ conv = [cents |-> 0, price |-> MinPrice, wallet |-> {}, cln |-> {},
               panicked |-> {}]
    /\ WalletInit
    /\ ClnInit
    /\ SearchInit

\* every step but the failures of the wallet's store (the scan, the reads)
Step ==
    \/ \E option \in PaymentOptions : CreateCallUnsupported(option)
    \/ \E option \in PaymentOptions, amount \in Amounts, usd_price \in Prices :
           CreateCall(option, amount, usd_price)
    \/ \E option \in PaymentOptions : CreateCallPriceErr(option)
    \/ MintQuoteOk
    \/ MintQuoteErr
    \/ KvWriteOk
    \/ KvWriteErr
    \/ CreateLockPush
    \/ \E t \in 1..Len(tasks) : TaskMintOk(t)
    \/ \E t \in 1..Len(tasks) : TaskErr(t)
    \/ \E q \in Quotes : PayInvoice(q)
    \/ WaitPaymentEventCall
    \/ StreamPull
    \/ StreamNext
    \/ StreamSleepDone
    \/ DropStream
    \/ CheckCallUnsupported
    \/ \E q \in Quotes : CheckCall(q)
    \/ CheckMint

\* the steps in which the wallet's store fails to answer
StoreErr ==
    \/ WaitPaymentEventScanErr
    \/ \E t \in 1..Len(tasks) : TaskMintOkKvReadErr(t)
    \/ CheckMintKvReadErr

Next == Step \/ StoreErr

Spec == Init /\ [][Next]_vars

\* the wait tasks there can ever be: one per quote and the re-registered ones
TaskIds == 1..(MaxQuotes + MaxRestartTasks)

\* The runtime runs every spawned task to its end, the callers drive their
\* calls to completion, the reader calls wait_payment_event again after it
\* has dropped a stream and pulls the stream it holds; the wallet's store
\* answers the scan and the reads.
FairSpec ==
    /\ Init
    /\ [][Step]_vars
    /\ \A t \in TaskIds : WF_vars(TaskMintOk(t) \/ TaskErr(t))
    /\ WF_vars(WaitPaymentEventCall)
    /\ SF_vars(StreamPull)
    /\ SF_vars(StreamNext)
    /\ WF_vars(StreamSleepDone)
    /\ WF_vars(CheckMint)
    /\ WF_vars(MintQuoteOk \/ MintQuoteErr)
    /\ WF_vars(KvWriteOk \/ KvWriteErr)
    /\ WF_vars(CreateLockPush)

\* ------------------------------------------------ the Lightning node's invoices

\* the value of an Option<u64> pay index; the node takes no index as 0
Idx(opt) == IF opt = {} THEN 0 ELSE CHOOSE n \in opt : TRUE

\* an invoice of listinvoices: status, pay_index (set when it is paid),
\* the bolt12 string and the local_offer_id (both Options; the model keeps of
\* the bolt12 string only whether it is there)
Invoice(bolt12, local_offer_id) ==
    [status |-> "unpaid", pay_index |-> {}, bolt12 |-> bolt12,
     local_offer_id |-> local_offer_id]

\* the invoices the node creates: bolt11, bolt12 of an offer, bolt12 without
\* a local offer
InvoiceKinds == {Invoice(FALSE, {}), Invoice(TRUE, {1}), Invoice(TRUE, {})}

\* the node creates an invoice (Cln::create_incoming_payment_request or an
\* offer that is fetched)
NodeInvoice(invoice) ==
    /\ Len(invoices) < MaxInvoices
    /\ invoices' = Append(invoices, invoice)
    /\ UNCHANGED <<conv, searchVars, walletVars, clnPayVars, stream, wait_invoice_cancel_token,
                   wait_invoice_is_active, yielded, seen_before, skipped>>

\* the pay indexes the node has given out
PayIndexes == {Idx(invoices[i].pay_index) : i \in 1..Len(invoices)} \cup {0}

\* the node sees invoice i paid: it gets the next pay index
NodePaid(i) ==
    /\ i \in 1..Len(invoices)
    /\ invoices[i].status = "unpaid"
    /\ invoices' = [invoices EXCEPT
                       ![i].status = "paid",
                       ![i].pay_index = {1 + CHOOSE n \in PayIndexes :
                                                \A o \in PayIndexes : o <= n}]
    /\ UNCHANGED <<conv, searchVars, walletVars, clnPayVars, stream, wait_invoice_cancel_token,
                   wait_invoice_is_active, yielded, seen_before, skipped>>

\* invoice i expires unpaid
NodeExpire(i) ==
    /\ i \in 1..Len(invoices)
    /\ invoices[i].status = "unpaid"
    /\ invoices' = [invoices EXCEPT ![i].status = "expired"]
    /\ UNCHANGED <<conv, searchVars, walletVars, clnPayVars, stream, wait_invoice_cancel_token,
                   wait_invoice_is_active, yielded, seen_before, skipped>>

\* waitanyinvoice(lastpay_index): the paid invoice with the lowest pay index
\* above lastpay_index, if there is one (else the call keeps waiting)
WaitAnyInvoicePaid(lastpay_index) ==
    {i \in 1..Len(invoices) :
        /\ invoices[i].status = "paid"
        /\ Idx(invoices[i].pay_index) > Idx(lastpay_index)
        /\ \A j \in 1..Len(invoices) :
              (invoices[j].status = "paid"
                 /\ Idx(invoices[j].pay_index) > Idx(lastpay_index))
              => Idx(invoices[i].pay_index) <= Idx(invoices[j].pay_index)}

\* ------------------------------------------- Cln::wait_any_incoming_payment

\* lines 531-556: get_last_pay_index: the pay_index of the last invoice of
\* listinvoices, None if there is no invoice
get_last_pay_index ==
    IF invoices = << >> THEN {} ELSE invoices[Len(invoices)].pay_index

\* the invoices the current stream has yielded
YieldedInvoices == {yielded[k].invoice : k \in 1..Len(yielded)}

\* lines 119-224: the consumer, having dropped the stream it had, calls
\* wait_any_incoming_payment: the cursor is rebuilt and the stream returned
\* (nothing of the closure runs before the first poll)
WaitAnyIncomingPayment ==
    /\ stream.pc = "none"
    /\ stream' = [NoStream EXCEPT !.pc = "created",
                                  !.last_pay_idx = get_last_pay_index]
    /\ seen_before' = seen_before \cup YieldedInvoices
    /\ yielded' = << >>
    /\ skipped' = {}
    /\ UNCHANGED <<conv, searchVars, walletVars, clnPayVars, invoices,
                   wait_invoice_cancel_token, wait_invoice_is_active>>

\* lines 136-143: the loop comes to the select!: with the token cancelled the
\* first branch is ready and the long-poll just sent is not, the closure
\* stores false and returns None; else it waits in the select!
SelectPc == IF wait_invoice_cancel_token THEN "ended" ELSE "select"

ActiveAtSelect(is_active) == IF wait_invoice_cancel_token THEN FALSE ELSE is_active

\* lines 132-137: the consumer polls the stream: the closure stores true and
\* enters the loop
StreamPoll ==
    /\ stream.pc \in {"created", "yielded"}
    /\ stream' = [stream EXCEPT !.pc = SelectPc]
    /\ wait_invoice_is_active' = ActiveAtSelect(TRUE)
    /\ UNCHANGED <<conv, searchVars, walletVars, clnPayVars, invoices,
                   wait_invoice_cancel_token, yielded, seen_before, skipped>>

\* lines 138-143: the token is cancelled while the select! waits
StreamCancelled ==
    /\ stream.pc = "select"
    /\ wait_invoice_cancel_token
    /\ stream' = [stream EXCEPT !.pc = "ended"]
    /\ wait_invoice_is_active' = FALSE
    /\ UNCHANGED <<conv, searchVars, walletVars, clnPayVars, invoices,
                   wait_invoice_cancel_token, yielded, seen_before, skipped>>

\* a cursor that is assigned before the status is looked at
CursorAfter_always(last_pay_idx, wait_any_response) ==
    wait_any_response.pay_index

\* lines 169-174: the cursor after a notification: an expired one leaves the
\* match with continue, a paid one assigns its pay_index
CursorAfter(last_pay_idx, wait_any_response) ==
    IF wait_any_response.status = "paid"
    THEN wait_any_response.pay_index
    ELSE last_pay_idx

\* the item of line 208
Item(i, kind, id) == [invoice |-> i, request_look_up |-> <<kind, id>>]

\* lines 144-208: the long-poll answers with the paid invoice i: the cursor
\* is advanced; a bolt11 invoice is yielded under its payment hash, a bolt12
\* one goes to the second query
StreamPaid(i) ==
    /\ stream.pc = "select"
    /\ i \in WaitAnyInvoicePaid(stream.last_pay_idx)
    /\ IF invoices[i].bolt12
       THEN /\ stream' = [stream EXCEPT
                             !.pc = "lookup",
                             !.last_pay_idx = CursorAfter(@, invoices[i]),
                             !.payment_hash = i]
            /\ UNCHANGED yielded
       ELSE /\ stream' = [stream EXCEPT
                             !.pc = "yielded",
                             !.last_pay_idx = CursorAfter(@, invoices[i])]
            /\ yielded' = Append(yielded, Item(i, "payment_hash", i))
    /\ UNCHANGED <<conv, searchVars, walletVars, clnPayVars, invoices,
                   wait_invoice_cancel_token, wait_invoice_is_active,
                   seen_before, skipped>>

\* lines 169-172: the long-poll answers with an expired invoice: continue
StreamExpired(i) ==
    /\ stream.pc = "select"
    /\ i \in 1..Len(invoices)
    /\ invoices[i].status = "expired"
    /\ stream' = [stream EXCEPT !.pc = SelectPc,
                                !.last_pay_idx = CursorAfter(@, invoices[i]),
                                !.expired_at = @ \cup {Idx(stream.last_pay_idx)}]
    /\ wait_invoice_is_active' = ActiveAtSelect(wait_invoice_is_active)
    /\ UNCHANGED <<conv, searchVars, walletVars, clnPayVars, invoices,
                   wait_invoice_cancel_token, yielded, seen_before, skipped>>

\* lines 152-165: the answer is not a WaitAnyInvoice response: continue
StreamParseErr ==
    /\ stream.pc = "select"
    /\ stream' = [stream EXCEPT !.pc = SelectPc]
    /\ wait_invoice_is_active' = ActiveAtSelect(wait_invoice_is_active)
    /\ UNCHANGED <<conv, searchVars, walletVars, clnPayVars, invoices,
                   wait_invoice_cancel_token, yielded, seen_before, skipped>>

\* a failed long-poll that ends the stream
StreamRpcErr_ends ==
    /\ stream.pc = "select"
    /\ stream' = [stream EXCEPT !.pc = "ended"]
    /\ UNCHANGED <<conv, searchVars, walletVars, clnPayVars, invoices,
                   wait_invoice_cancel_token, wait_invoice_is_active, yielded,
                   seen_before, skipped>>

\* lines 210-212: the long-poll fails: sleep(1 s)
StreamRpcErr ==
    /\ stream.pc = "select"
    /\ stream' = [stream EXCEPT !.pc = "backoff"]
    /\ UNCHANGED <<conv, searchVars, walletVars, clnPayVars, invoices,
                   wait_invoice_cancel_token, wait_invoice_is_active, yielded,
                   seen_before, skipped>>

\* lines 212-213: the sleep is over: continue
StreamBackoffDone ==
    /\ stream.pc = "backoff"
    /\ stream' = [stream EXCEPT !.pc = SelectPc]
    /\ wait_invoice_is_active' = ActiveAtSelect(wait_invoice_is_active)
    /\ UNCHANGED <<conv, searchVars, walletVars, clnPayVars, invoices,
                   wait_invoice_cancel_token, yielded, seen_before, skipped>>

\* the notification is skipped: continue
Skip ==
    /\ stream' = [stream EXCEPT !.pc = SelectPc, !.payment_hash = 0]
    /\ wait_invoice_is_active' = ActiveAtSelect(wait_invoice_is_active)
    /\ skipped' = skipped \cup {stream.payment_hash}
    /\ UNCHANGED yielded

\* lines 183-195, 208: fetch_invoice_by_payment_hash answers Ok(Some(invoice)):
\* with a local_offer_id the offer id is yielded, without one the
\* notification is skipped
LookupOk ==
    /\ stream.pc = "lookup"
    /\ LET invoice == invoices[stream.payment_hash]
       IN  IF invoice.local_offer_id # {}
           THEN /\ stream' = [stream EXCEPT !.pc = "yielded", !.payment_hash = 0]
                /\ yielded' = Append(yielded,
                                     Item(stream.payment_hash, "local_offer_id",
                                          Idx(invoice.local_offer_id)))
                /\ UNCHANGED <<wait_invoice_is_active, skipped>>
           ELSE Skip
    /\ UNCHANGED <<conv, searchVars, walletVars, clnPayVars, invoices,
                   wait_invoice_cancel_token, seen_before>>

\* line 196: the second query lists no invoice: continue
LookupNone ==
    /\ stream.pc = "lookup"
    /\ Skip
    /\ UNCHANGED <<conv, searchVars, walletVars, clnPayVars, invoices,
                   wait_invoice_cancel_token, seen_before>>

\* a failed second query that ends the stream
LookupErr_ends ==
    /\ stream.pc = "lookup"
    /\ stream' = [stream EXCEPT !.pc = "ended", !.payment_hash = 0]
    /\ skipped' = skipped \cup {stream.payment_hash}
    /\ UNCHANGED <<conv, searchVars, walletVars, clnPayVars, invoices,
                   wait_invoice_cancel_token, wait_invoice_is_active, yielded,
                   seen_before>>

\* lines 197-202: the second query fails: continue
LookupErr ==
    /\ stream.pc = "lookup"
    /\ Skip
    /\ UNCHANGED <<conv, searchVars, walletVars, clnPayVars, invoices,
                   wait_invoice_cancel_token, seen_before>>

\* lines 115-117: cancel_wait_invoice
CancelWaitInvoice ==
    /\ ~wait_invoice_cancel_token
    /\ wait_invoice_cancel_token' = TRUE
    /\ UNCHANGED <<conv, searchVars, walletVars, clnPayVars, invoices, stream,
                   wait_invoice_is_active, yielded, seen_before, skipped>>

\* the consumer drops the stream, whatever the closure is doing
DropClnStream ==
    /\ stream.pc # "none"
    /\ stream' = NoStream
    /\ UNCHANGED <<conv, searchVars, walletVars, clnPayVars, invoices,
                   wait_invoice_cancel_token, wait_invoice_is_active, yielded,
                   seen_before, skipped>>

ClnStreamNext ==
    \/ \E invoice \in InvoiceKinds : NodeInvoice(invoice)
    \/ \E i \in 1..MaxInvoices : NodePaid(i)
    \/ \E i \in 1..MaxInvoices : NodeExpire(i)
    \/ WaitAnyIncomingPayment
    \/ StreamPoll
    \/ StreamCancelled
    \/ \E i \in 1..MaxInvoices : StreamPaid(i)
    \/ \E i \in 1..MaxInvoices : StreamExpired(i)
    \/ StreamParseErr
    \/ StreamRpcErr
    \/ StreamBackoffDone
    \/ LookupOk
    \/ LookupNone
    \/ LookupErr
    \/ CancelWaitInvoice
    \/ DropClnStream

ClnStreamSpec == Init /\ [][ClnStreamNext]_vars

\* The consumer polls the stream it holds, the node answers the long-poll
\* with a paid invoice that it has (errors do not go on for ever), the sleep
\* ends and the second query is answered.
ClnStreamFairSpec ==
    /\ Init
    /\ [][ClnStreamNext]_vars
    /\ WF_vars(StreamPoll)
    /\ \A i \in 1..MaxInvoices : SF_vars(StreamPaid(i))
    /\ WF_vars(StreamBackoffDone)
    /\ WF_vars(LookupOk \/ LookupNone \/ LookupErr)

\* -------------------------------------------------- Cln: outgoing payments

\* fee_reserve.percent_fee_reserve (an f32, here a fraction that f32 holds
\* exactly) and fee_reserve.min_fee_reserve
PercentFeeReserve == [num |-> 1, den |-> 4]

MinFeeReserve == 1

\* the amount of the invoice of the melt quote, in the quote's unit (sat)
InvoiceAmount == 8

\* to_unit(amount, &CurrencyUnit::Sat, &CurrencyUnit::Msat)
SatToMsat(amount) == amount * 1000

\* lines 239-247: the fee of get_payment_quote: the product is truncated by
\* `as u64`, the larger of it and the minimum is the fee
get_payment_quote_fee(amount) ==
    LET relative_fee_reserve ==
            (PercentFeeReserve.num * amount) \div PercentFeeReserve.den
        absolute_fee_reserve == MinFeeReserve
    IN  IF relative_fee_reserve > absolute_fee_reserve
        THEN relative_fee_reserve
        ELSE absolute_fee_reserve

\* the max_fee a caller of make_payment may pass: None or an amount
MaxFees == {{}} \cup {{f} : f \in 1..MaxFee}

\* a mapping that reports a failed payment as Unpaid
cln_pays_status_to_mint_state_unpaid(status) ==
    CASE status = "pending" -> "Pending"
      [] status = "complete" -> "Paid"
      [] status = "failed" -> "Unpaid"
      [] status = "none" -> "Unknown"

\* lines 567-573 and 479-485: the state check_outgoing_payment reports: the
\* status of the first payment listed, Unknown if none is listed
cln_pays_status_to_mint_state(status) ==
    CASE status = "pending" -> "Pending"
      [] status = "complete" -> "Paid"
      [] status = "failed" -> "Failed"
      [] status = "none" -> "Unknown"

\* the calls that have not returned
InProgress == {c \in Callers : melt[c].pc # "idle"}

\* lines 257-265: make_payment is called: check_outgoing_payment asks for
\* the client lock.  (The guard caps the model: every call in progress can
\* still send its Pay request.)
MakePaymentCall(c, max_fee) ==
    /\ melt[c].pc = "idle"
    /\ Len(pay_rpcs) + Cardinality(InProgress) < MaxPayRpcs
    /\ melt' = [melt EXCEPT ![c] = [pc |-> "check_lock", max_fee |-> max_fee,
                                    status |-> "none", result |-> "none"]]
    /\ UNCHANGED <<conv, searchVars, walletVars, clnStreamVars, cln_call, pays, cln_client, pay_rpcs>>

\* lines 450-462: the lock is taken and ListPays sent
CheckOutgoingListPays(c) ==
    /\ melt[c].pc = "check_lock"
    /\ cln_client = {}
    /\ cln_client' = {c}
    /\ melt' = [melt EXCEPT ![c].pc = "listpays"]
    /\ UNCHANGED <<conv, searchVars, walletVars, clnStreamVars, cln_call, pays, pay_rpcs>>

\* a guard that lets a pending payment through
Rejects_paid(status) ==
    CASE status = "Paid" -> "InvoiceAlreadyPaid"
      [] OTHER -> "none"

\* lines 268-278: the error make_payment returns on the checked state, none
\* if it goes on
Rejects(status) ==
    CASE status = "Paid" -> "InvoiceAlreadyPaid"
      [] status = "Pending" -> "InvoicePaymentPending"
      [] OTHER -> "none"

\* a status check that returns with its MutexGuard still held
CheckOutgoingAnswer_holds(c) ==
    /\ melt[c].pc = "listpays"
    /\ cln_client' = cln_client
    /\ LET status == cln_pays_status_to_mint_state(pays)
       IN  melt' = [melt EXCEPT ![c].status = status,
                                ![c].result = Rejects(status),
                                ![c].pc = IF Rejects(status) = "none"
                                          THEN "pay_lock" ELSE "idle"]
    /\ UNCHANGED <<conv, searchVars, walletVars, clnStreamVars, cln_call, pays, pay_rpcs>>

\* lines 464-492 and 268-280: the node answers ListPays, the guard of
\* check_outgoing_payment is dropped; the state is matched: Paid and Pending
\* return their error, the others ask for the client lock again
CheckOutgoingAnswer(c) ==
    /\ melt[c].pc = "listpays"
    /\ cln_client' = {}
    /\ LET status == cln_pays_status_to_mint_state(pays)
       IN  melt' = [melt EXCEPT ![c].status = status,
                                ![c].result = Rejects(status),
                                ![c].pc = IF Rejects(status) = "none"
                                          THEN "pay_lock" ELSE "idle"]
    /\ UNCHANGED <<conv, searchVars, walletVars, clnStreamVars, cln_call, pays, pay_rpcs>>

\* lines 452-462, 487-490: ListPays fails or answers with another kind of
\* response; the error is returned with ?
CheckOutgoingErr(c) ==
    /\ melt[c].pc = "listpays"
    /\ cln_client' = {}
    /\ melt' = [melt EXCEPT ![c].pc = "idle", ![c].result = "Lightning"]
    /\ UNCHANGED <<conv, searchVars, walletVars, clnStreamVars, cln_call, pays, pay_rpcs>>

\* lines 293-300: the maxfee of the PayRequest: the caller's max_fee in msat
PayRequestMaxfee(max_fee) == {SatToMsat(a) : a \in max_fee}

\* the node takes a Pay request: a payment that is not under way or done is
\* started
NodePay(status) == IF status \in {"none", "failed"} THEN "pending" ELSE status

\* lines 280-312: the client lock is taken and the Pay request sent
PayRpc(c) ==
    /\ melt[c].pc = "pay_lock"
    /\ cln_client = {}
    /\ cln_client' = {c}
    /\ melt' = [melt EXCEPT ![c].pc = "pay"]
    /\ pay_rpcs' = Append(pay_rpcs,
                          [caller |-> c, checked |-> melt[c].status,
                           maxfee |-> PayRequestMaxfee(melt[c].max_fee),
                           pays |-> pays])
    /\ pays' = NodePay(pays)
    /\ UNCHANGED <<conv, searchVars, walletVars, clnStreamVars, cln_call>>

\* lines 316-320: PayStatus to MeltQuoteState
PayStatusState(status) ==
    CASE status = "complete" -> "Paid"
      [] status = "pending" -> "Pending"
      [] status = "failed" -> "Failed"

\* lines 314-343: the node answers the Pay request with the status `status`
\* of the payment; the response is returned and the guard dropped
PayAnswer(c, status) ==
    /\ melt[c].pc = "pay"
    /\ pays \in {"pending", "complete"}
    /\ pays = "complete" => status = "complete"
    /\ pays' = status
    /\ cln_client' = {}
    /\ melt' = [melt EXCEPT ![c].pc = "idle", ![c].result = PayStatusState(status)]
    /\ UNCHANGED <<conv, searchVars, walletVars, clnStreamVars, cln_call, pay_rpcs>>

\* lines 333-339: the Pay request fails: WrongClnResponse; the payment may
\* go on in the node
PayErr(c) ==
    /\ melt[c].pc = "pay"
    /\ cln_client' = {}
    /\ melt' = [melt EXCEPT ![c].pc = "idle", ![c].result = "Lightning"]
    /\ UNCHANGED <<conv, searchVars, walletVars, clnStreamVars, cln_call, pays, pay_rpcs>>

\* a payment that the node has under way, with no Pay request waiting for
\* it, completes or fails
NodePayResolve(status) ==
    /\ pays = "pending"
    /\ \A c \in Callers : melt[c].pc # "pay"
    /\ pays' = status
    /\ UNCHANGED <<conv, searchVars, walletVars, clnStreamVars, cln_call, melt, cln_client, pay_rpcs>>

ClnPayNext ==
    \/ \E c \in Callers, max_fee \in MaxFees : MakePaymentCall(c, max_fee)
    \/ \E c \in Callers : CheckOutgoingListPays(c)
    \/ \E c \in Callers : CheckOutgoingAnswer(c)
    \/ \E c \in Callers : CheckOutgoingErr(c)
    \/ \E c \in Callers : PayRpc(c)
    \/ \E c \in Callers, status \in {"complete", "pending", "failed"} :
           PayAnswer(c, status)
    \/ \E c \in Callers : PayErr(c)
    \/ \E status \in {"complete", "failed"} : NodePayResolve(status)

ClnPaySpec == Init /\ [][ClnPayNext]_vars

\* the wallet adapter with calls of cancel_wait_invoice
WalletCancelSpec == Init /\ [][Next \/ WalletCancelWaitInvoice]_vars

\* the outgoing side of the wallet adapter
WalletPaySpec == Init /\ [][WalletPayNext]_vars

\* ------------------- Cln: the incoming-side calls on the shared client

\* the task that makes the incoming-side calls (the make_payment callers
\* are 1 and 2)
ClnCaller == 3

\* the units a request is made in: the settlement unit and another
Units == {"XSR", "sat"}

\* the call returns `result` (or panics): its MutexGuard is dropped
ClnCallReturn(result) ==
    /\ cln_call' = [cln_call EXCEPT !.pc = "idle", !.result = result]
    /\ cln_client' = {}

\* lines 345-352: create_incoming_payment_request is called and asks for the
\* client lock
CreateIncomingCall(unit) ==
    /\ cln_call.pc = "idle"
    /\ Len(invoices) < MaxInvoices
    /\ cln_call' = [IdleClnCall EXCEPT !.pc = "lock", !.op = "create",
                                       !.unit = unit]
    /\ UNCHANGED <<conv, searchVars, walletVars, clnStreamVars, pays, melt, cln_client, pay_rpcs>>

\* lines 352-363: the lock is taken; in the settlement unit the price is
\* fetched with the lock held, in another unit the amount is converted and
\* the Invoice request sent
CreateIncomingLock ==
    /\ cln_call.pc = "lock"
    /\ cln_call.op = "create"
    /\ cln_client = {}
    /\ cln_client' = {ClnCaller}
    /\ cln_call' = [cln_call EXCEPT
                       !.pc = IF cln_call.unit = "XSR" THEN "price" ELSE "invoice"]
    /\ UNCHANGED <<conv, searchVars, walletVars, clnStreamVars, pays, melt, pay_rpcs>>

\* lines 358-359, 369: get_usd_price answers: cents_to_msats(3 * amount, price)
\* (which panics on a zero divisor), then the Invoice request is sent
CreateIncomingPrice(usd_price) ==
    /\ cln_call.pc = "price"
    /\ IF DivisionByZero(usd_price)
       THEN ClnCallReturn("PanicDivideByZero")
       ELSE /\ cln_call' = [cln_call EXCEPT !.pc = "invoice"]
            /\ UNCHANGED cln_client
    /\ UNCHANGED <<conv, searchVars, walletVars, clnStreamVars, pays, melt, pay_rpcs>>

\* line 358: get_usd_price fails: `.unwrap()` on the Err panics
CreateIncomingPriceErr ==
    /\ cln_call.pc = "price"
    /\ ClnCallReturn("PanicUnwrapOnErr")
    /\ UNCHANGED <<conv, searchVars, walletVars, clnStreamVars, pays, melt, pay_rpcs>>

\* lines 369-395: the node creates the bolt11 invoice and answers
CreateIncomingInvoice ==
    /\ cln_call.pc = "invoice"
    /\ invoices' = Append(invoices, Invoice(FALSE, {}))
    /\ ClnCallReturn("Ok")
    /\ UNCHANGED <<conv, searchVars, walletVars, stream, wait_invoice_cancel_token,
                   wait_invoice_is_active, yielded, seen_before, skipped,
                   pays, melt, pay_rpcs>>

\* lines 381-382, 396-399: the Invoice request fails or is answered with
\* another kind of response
CreateIncomingInvoiceErr ==
    /\ cln_call.pc = "invoice"
    /\ ClnCallReturn("Lightning")
    /\ UNCHANGED <<conv, searchVars, walletVars, clnStreamVars, pays, melt, pay_rpcs>>

\* a mapping that reports an expired invoice as paid
cln_invoice_status_to_mint_state_expired(status) ==
    CASE status = "unpaid" -> "Unpaid"
      [] status = "paid" -> "Paid"
      [] status = "expired" -> "Paid"

\* lines 559-565
cln_invoice_status_to_mint_state(status) ==
    CASE status = "unpaid" -> "Unpaid"
      [] status = "paid" -> "Paid"
      [] status = "expired" -> "Unpaid"

\* the payment hashes a status is asked for: those of the node's invoices
\* and one the node does not know
PaymentHashes == 1..(MaxInvoices + 1)

\* lines 403-407: check_incoming_payment_status is called and asks for the
\* client lock
CheckIncomingCall(payment_hash) ==
    /\ cln_call.pc = "idle"
    /\ cln_call' = [IdleClnCall EXCEPT !.pc = "lock", !.op = "check",
                                       !.payment_hash = payment_hash]
    /\ UNCHANGED <<conv, searchVars, walletVars, clnStreamVars, pays, melt, cln_client, pay_rpcs>>

\* lines 407-419: the lock is taken and ListInvoices(payment_hash) sent
CheckIncomingLock ==
    /\ cln_call.pc = "lock"
    /\ cln_call.op = "check"
    /\ cln_client = {}
    /\ cln_client' = {ClnCaller}
    /\ cln_call' = [cln_call EXCEPT !.pc = "listinvoices"]
    /\ UNCHANGED <<conv, searchVars, walletVars, clnStreamVars, pays, melt, pay_rpcs>>

\* ListInvoices(payment_hash): invoices.first() of the answer, as the status
\* of the invoice (an Option)
ListInvoicesFirst(payment_hash) ==
    IF payment_hash \in 1..Len(invoices) THEN {invoices[payment_hash].status} ELSE {}

\* lines 421-443: the node answers: the status of the first invoice listed
\* is mapped; with no invoice listed the call returns WrongClnResponse
CheckIncomingAnswer ==
    /\ cln_call.pc = "listinvoices"
    /\ cln_call.op = "check"
    /\ LET first == ListInvoicesFirst(cln_call.payment_hash)
       IN  cln_call' = [cln_call EXCEPT
                           !.pc = "idle",
                           !.listed = first,
                           !.result = IF first = {} THEN "WrongClnResponse"
                                      ELSE cln_invoice_status_to_mint_state(
                                               CHOOSE status \in first : TRUE)]
    /\ cln_client' = {}
    /\ UNCHANGED <<conv, searchVars, walletVars, clnStreamVars, pays, melt, pay_rpcs>>

\* lines 409-419, 436-439: ListInvoices fails or is answered with another
\* kind of response
CheckIncomingErr ==
    /\ cln_call.pc = "listinvoices"
    /\ cln_call.op = "check"
    /\ ClnCallReturn("Lightning")
    /\ UNCHANGED <<conv, searchVars, walletVars, clnStreamVars, pays, melt, pay_rpcs>>

\* lines 531-532: get_last_pay_index is called (by
\* wait_any_incoming_payment) and asks for the client lock
GetLastPayIndexCall ==
    /\ cln_call.pc = "idle"
    /\ cln_call' = [IdleClnCall EXCEPT !.pc = "lock", !.op = "get_last_pay_index"]
    /\ UNCHANGED <<conv, searchVars, walletVars, clnStreamVars, pays, melt, cln_client, pay_rpcs>>

\* lines 532-544: the lock is taken and ListInvoices sent
GetLastPayIndexLock ==
    /\ cln_call.pc = "lock"
    /\ cln_call.op = "get_last_pay_index"
    /\ cln_client = {}
    /\ cln_client' = {ClnCaller}
    /\ cln_call' = [cln_call EXCEPT !.pc = "listinvoices"]
    /\ UNCHANGED <<conv, searchVars, walletVars, clnStreamVars, pays, melt, pay_rpcs>>

\* lines 534-555: the node answers or the call fails
GetLastPayIndexAnswer(ok) ==
    /\ cln_call.pc = "listinvoices"
    /\ cln_call.op = "get_last_pay_index"
    /\ ClnCallReturn(IF ok THEN "Ok" ELSE "Lightning")
    /\ UNCHANGED <<conv, searchVars, walletVars, clnStreamVars, pays, melt, pay_rpcs>>

ClnCallNext ==
    \/ \E unit \in Units : CreateIncomingCall(unit)
    \/ CreateIncomingLock
    \/ \E usd_price \in Prices \cup {0} : CreateIncomingPrice(usd_price)
    \/ CreateIncomingPriceErr
    \/ CreateIncomingInvoice
    \/ CreateIncomingInvoiceErr
    \/ \E payment_hash \in PaymentHashes : CheckIncomingCall(payment_hash)
    \/ CheckIncomingLock
    \/ CheckIncomingAnswer
    \/ CheckIncomingErr
    \/ GetLastPayIndexCall
    \/ GetLastPayIndexLock
    \/ \E ok \in BOOLEAN : GetLastPayIndexAnswer(ok)

\* the incoming-side calls with the node's invoices being paid and expiring
ClnCallSpec ==
    Init /\ [][ClnCallNext \/ \E i \in 1..MaxInvoices : NodePaid(i) \/ NodeExpire(i)]_vars

\* every call on the shared client: the incoming-side calls and make_payment
\* with its status check
\* (make_payment without a fee limit: the limit plays no part in the locking)
ClnClientNext ==
    \/ ClnCallNext
    \/ \E c \in Callers : MakePaymentCall(c, {})
    \/ \E c \in Callers : CheckOutgoingListPays(c)
    \/ \E c \in Callers : CheckOutgoingAnswer(c)
    \/ \E c \in Callers : CheckOutgoingErr(c)
    \/ \E c \in Callers : PayRpc(c)
    \/ \E c \in Callers, status \in {"complete", "pending", "failed"} :
           PayAnswer(c, status)
    \/ \E c \in Callers : PayErr(c)

ClnClientSpec == Init /\ [][ClnClientNext]_vars

\* the results computed so far
ConvResults == conv.wallet \cup conv.cln

\* the exact cost c * 10^11 / (p * 100) as quotient and remainder
Exact == MsatsQuotRem(conv.cents, conv.price)

\* an integer m is >= the exact cost q + r/d
AtLeastExact(m) == m > Exact.q \/ (m = Exact.q /\ Exact.r = 0)

\* m - (q + r/d) < 1000
LessThanOneSatAbove(m) == m - Exact.q < 1000 \/ (m - Exact.q = 1000 /\ Exact.r > 0)

\* C1: the amount returned by cents_to_msats is never below the exact
\* fractional millisatoshi cost (no undercharging).
C1_NoUndercharge == \A m \in ConvResults : AtLeastExact(m)

\* C2: the amount returned is a whole number of satoshis and exceeds the
\* exact fractional cost by strictly less than one satoshi.
C2_WholeSatLessThanOneOver ==
    \A m \in ConvResults :
        /\ m % 1000 = 0
        /\ AtLeastExact(m)
        /\ LessThanOneSatAbove(m)

\* ---------------------------------------------------------------- the claims

\* the quote has a record and `amount` is the amount_xsr persisted in it
IsPersistedAmount(quote_id, amount) ==
    \E cost_info \in kv[quote_id] : amount = cost_info.amount_xsr

\* C3: every confirmation the adapter delivers (a PaymentReceived event of the
\* stream, an entry returned by check_incoming_payment_status) carries the
\* amount_xsr persisted in the quote's cost record.
C3_ConfirmationCarriesAmountXsr ==
    /\ \A i \in 1..Len(events) : IsPersistedAmount(events[i].quote, events[i].amount)
    /\ \A c \in confirmations : IsPersistedAmount(c.quote, c.amount)

\* an event has been delivered for a quote whose cost_sats differs from its
\* amount_xsr
C3_Witness ==
    \E i \in 1..Len(events) :
        \E cost_info \in kv[events[i].quote] :
            cost_info.cost_sats # cost_info.amount_xsr

\* C4: the stream delivers at most one PaymentReceived event per quote id.
C4_AtMostOneEventPerQuote ==
    \A i, j \in 1..Len(events) : events[i].quote = events[j].quote => i = j

\* a quote with a task from creation and a re-registered one, both taken out
\* of the pool, and its event delivered
C4_Witness ==
    \E q \in Quotes :
        /\ \E i \in 1..Len(events) : events[i].quote = q
        /\ \E t, u \in 1..Len(tasks) :
              /\ tasks[t].quote = q /\ tasks[t].kind = "create"
              /\ tasks[u].quote = q /\ tasks[u].kind = "restart"
              /\ tasks[t].harvested > 0 /\ tasks[u].harvested > 0

\* the tasks whose result next() has handed out
Taken_ids == {t \in 1..Len(tasks) : tasks[t].harvested > 0}

\* C5: the reader receives exactly one event for each harvested task that
\* resolved to Some, none for the others, and no task's result is harvested
\* more than once (a harvested task has left the pool).
C5_OneEventPerSomeResult ==
    /\ \A t \in 1..Len(tasks) : tasks[t].harvested <= 1
    /\ Taken_ids \cap pending_mints = {}
    /\ Len(events) = Cardinality({t \in Taken_ids : tasks[t].st = "Some"})

\* the pool has been drained of N = 2 tasks of which K = 1 resolved to Some
C5_Witness ==
    /\ pending_mints = {}
    /\ Len(events) = 1
    /\ \E t, u \in Taken_ids : tasks[t].st = "Some" /\ tasks[u].st = "None"

\* C7: an invoice is returned only for a quote whose cost record is in the
\* store, and a wait task of a creation exists only for such a quote.
C7_PersistThenReturn ==
    /\ \A q \in returned : kv[q] # {}
    /\ \A t \in 1..Len(tasks) : tasks[t].kind = "create" => kv[tasks[t].quote] # {}

\* the call has just returned the invoice of a quote
C7_Witness ==
    /\ response = Response("create", "Bolt11", "Ok")
    /\ returned # {}

\* C8: when create_incoming_payment_request has returned an error, every
\* quote of the rail and of the wallet's store has its cost record, and no
\* wait task exists for a quote without one.
C8_FailedCreateLeavesNothing ==
    (response.op = "create" /\ response.result # "Ok") =>
        /\ \A q \in Quotes : mint[q] # "absent" => kv[q] # {}
        /\ \A t \in 1..Len(tasks) : kv[tasks[t].quote] # {}

\* C9: a call with another option than Bolt11 returns
\* UnsupportedPaymentOption in its first step and changes nothing: it never
\* gets to the price fetch, the quote request, the write or the registration.
C9_UnsupportedOptionFailsFirst ==
    [][/\ call'.pc # "idle" => call'.option = "Bolt11"
       /\ (response'.op = "create" /\ response'.option # "Bolt11") =>
              /\ response'.result = "UnsupportedPaymentOption"
              /\ call.pc = "idle" /\ call'.pc = "idle"
              /\ UNCHANGED <<mint, kv, kv_reads, returned, tasks, pending_mints, lock,
                             events>>]_vars

\* a Bolt12 request has just been refused while a quote exists
C9_Witness ==
    /\ response = Response("create", "Bolt12", "UnsupportedPaymentOption")
    /\ \E q \in Quotes : mint[q] # "absent"

\* C10: the call never has to wait for a wait task: when it asks for the pool
\* lock, no pull suspended in next() holds it.
C10_CreateNeverWaitsForATask ==
    call.pc = "lock" => lock = None

\* the quote is paid and not minted, and no stream exists
PaidUnobserved(q) == mint[q] = "Paid" /\ reader = "none"

Delivered(q) == \E i \in 1..Len(events) : events[i].quote = q

Confirmed(q) == \E c \in confirmations : c.quote = q

C11_LockNotHeldAcrossSuspension ==
    ~(reader = "next" /\ lock = "stream")

\* the quote has been confirmed to the settlement engine
Credited(q) == Delivered(q) \/ Confirmed(q)

\* C12: for every quote whose confirmation has been delivered (by the task
\* of its creation, by a re-registered task or by
\* check_incoming_payment_status), the cost record has been read from the
\* store exactly once.
C12_RecordReadExactlyOnce ==
    \A q \in Quotes : Credited(q) => Len(kv_reads[q]) = 1

\* a kv_read of the quote's record has given nothing usable
ReadFailed(q) == \E i \in 1..Len(kv_reads[q]) : kv_reads[q][i] = "None"

\* C13: a confirmed quote whose cost record cannot be had at confirmation
\* time is never credited: the re-registered task resolves to no event,
\* check_incoming_payment_status returns an error and no confirmation, and
\* no event is emitted for a quote without a record in the store.
C13_NoRecordNoCredit ==
    /\ \A q \in Quotes : ReadFailed(q) => ~Credited(q)
    /\ \A i \in 1..Len(events) : kv[events[i].quote] # {}
    /\ \A t \in 1..Len(tasks) :
          (tasks[t].kind = "restart" /\ tasks[t].st = "Some")
              => ~ReadFailed(tasks[t].quote)

\* a paid quote has been minted by a re-registered task whose read failed,
\* and the task's result (None) has been taken out of the pool
C13_Witness ==
    \E q \in Quotes :
        /\ mint[q] = "Issued"
        /\ ReadFailed(q)
        /\ \E t \in Taken_ids :
              tasks[t].quote = q /\ tasks[t].kind = "restart" /\ tasks[t].st = "None"

\* a stream exists and has not ended
Live == stream.pc \notin {"none", "ended"}

\* C17: once cancel_wait_invoice has been called on a live stream, the
\* stream yields no further item, whatever the loop was doing.
C17_NoItemAfterCancel ==
    [][(wait_invoice_cancel_token /\ Live) => yielded' = yielded]_vars

\* C18: no step of a stream sets its cursor to a smaller pay index or back to
\* none.
C18_CursorNeverDecreases ==
    [][(stream.pc # "none" /\ stream'.pc # "none")
          => Idx(stream'.last_pay_idx) >= Idx(stream.last_pay_idx)]_vars

\* the cursor has been advanced, a bolt12 notification skipped and an
\* expired invoice been there to be notified, and the loop is in its error
\* backoff
C18_Witness ==
    /\ stream.pc = "backoff"
    /\ stream.last_pay_idx # {}
    /\ skipped # {}
    /\ \E i \in 1..Len(invoices) : invoices[i].status = "expired"

\* C19: no invoice that an earlier stream has yielded is yielded again by a
\* stream started later.
C19_NoReobservation == YieldedInvoices \cap seen_before = {}

\* a step that leaves the second query without yielding (and is not the
\* drop of the stream) is a continue: the closure is back at the select!,
\* nothing is yielded and the cursor stays where the notification put it
SkipStep ==
    (stream.pc = "lookup" /\ stream'.pc \notin {"lookup", "yielded", "none"})
        => /\ stream'.pc = SelectPc
           /\ yielded' = yielded
           /\ stream'.last_pay_idx = stream.last_pay_idx
           /\ stream.payment_hash \in skipped'

\* the stream has yet to see the paid bolt11 invoice i
Ahead(i) ==
    /\ i \in 1..Len(invoices)
    /\ invoices[i].status = "paid"
    /\ ~invoices[i].bolt12
    /\ Live
    /\ Idx(invoices[i].pay_index) > Idx(stream.last_pay_idx)

\* C20: a bolt12 notification whose second query fails, lists no invoice or
\* gives an invoice without an offer id is skipped and the loop keeps
\* running; the paid invoices after it are still yielded (unless the stream
\* is cancelled or dropped first).
C20_Bolt12LookupFailureSkipped ==
    /\ [][SkipStep]_vars
    /\ \A i \in 1..MaxInvoices :
          Ahead(i) ~> (i \in YieldedInvoices \/ wait_invoice_cancel_token
                         \/ stream.pc = "none")

\* a bolt12 notification has been skipped and an invoice paid after it has
\* been yielded by the same stream
C20_Witness ==
    \E h \in skipped : \E k \in 1..Len(yielded) :
        /\ ~wait_invoice_cancel_token
        /\ Idx(invoices[yielded[k].invoice].pay_index) > Idx(invoices[h].pay_index)

\* C14: a make_payment call whose status check reports Paid returns
\* InvoiceAlreadyPaid, one whose check reports Pending returns
\* InvoicePaymentPending, and neither sends a Pay request: every Pay request
\* is sent by a call whose check reported Unpaid, Failed or Unknown.
C14_PaidAndPendingRejected ==
    /\ \A c \in Callers :
          /\ melt[c].status = "Paid"
                => melt[c].pc = "idle" /\ melt[c].result = "InvoiceAlreadyPaid"
          /\ melt[c].status = "Pending"
                => melt[c].pc = "idle" /\ melt[c].result = "InvoicePaymentPending"
    /\ \A k \in 1..Len(pay_rpcs) :
          pay_rpcs[k].checked \in {"Unpaid", "Failed", "Unknown"}

\* one call has been refused for a paid invoice and another for a pending
\* payment, after a Pay request of an earlier call
C14_Witness ==
    /\ pay_rpcs # << >>
    /\ \E c, d \in Callers :
          /\ melt[c].pc = "idle" /\ melt[c].result = "InvoiceAlreadyPaid"
          /\ melt[d].pc = "idle" /\ melt[d].result = "InvoicePaymentPending"

\* C15: no Pay request is sent to the node while the payment of the invoice
\* is pending or paid.
C15_NoSecondPayRpc ==
    \A k \in 1..Len(pay_rpcs) : pay_rpcs[k].pays \notin {"pending", "complete"}

\* C16: every Pay request carries as maxfee the fee reserve that
\* get_payment_quote computes for the invoice.
C16_MaxfeeIsFeeReserve ==
    \A k \in 1..Len(pay_rpcs) :
        pay_rpcs[k].maxfee = {SatToMsat(get_payment_quote_fee(InvoiceAmount))}

\* C21: a failed long-poll does not end the stream: the loop sleeps and
\* comes back to the select! with the cursor it had, where the long-poll is
\* sent again; a stream ends only when the token has been cancelled.
C21_RpcErrorRetried ==
    [][/\ (stream.pc = "select" /\ stream'.pc = "backoff")
             => /\ stream'.last_pay_idx = stream.last_pay_idx
                /\ yielded' = yielded
       /\ (stream.pc = "backoff" /\ stream'.pc \notin {"backoff", "none"})
             => /\ stream'.pc = SelectPc
                /\ stream'.last_pay_idx = stream.last_pay_idx
       /\ (stream.pc # "ended" /\ stream'.pc = "ended")
             => wait_invoice_cancel_token]_vars

\* the long-poll has failed with the cursor advanced and a paid invoice
\* after it still to come, and the loop sleeps
C21_Witness ==
    /\ stream.pc = "backoff"
    /\ ~wait_invoice_cancel_token
    /\ yielded # << >>
    /\ WaitAnyInvoicePaid(stream.last_pay_idx) # {}

\* the closure of a stream has started and has neither returned None nor
\* been dropped
Started == stream.pc \in {"select", "lookup", "backoff", "yielded"}

\* C22: is_wait_invoice_active() is true exactly when a stream has been
\* started (polled) and has not ended: false before the first poll, after
\* the end and after the consumer has dropped the stream.
C22_FlagReflectsLiveness == wait_invoice_is_active <=> Started

\* C23: with a reference price of zero cents_to_msats returns a conversion
\* error: neither copy aborts with a division by zero.
C23_ZeroPriceIsAnError == conv.price = 0 => conv.panicked = {}

\* C24: a failure of the price oracle in create_incoming_payment_request of
\* the Lightning-node adapter is returned as a payment error of the rail:
\* the call that waits for the price ends, unless it was answered a price,
\* with the error Lightning, with no invoice created and no panic.
C24_PriceFailureIsRailError ==
    [][(cln_call.pc = "price" /\ cln_call'.pc = "idle"
           /\ cln_call'.result # "PanicDivideByZero")
          => /\ cln_call'.result = "Lightning"
             /\ invoices' = invoices]_vars

\* the states the claim gives for the node's invoice statuses
C26_Expected == [unpaid |-> "Unpaid", paid |-> "Paid", expired |-> "Unpaid"]

\* C26: check_incoming_payment_status of the Lightning-node adapter returns
\* Unpaid for an unpaid invoice, Paid for a paid one and Unpaid for an expired
\* one: never a failure state for an expired invoice.
C26_InvoiceStatusMapping ==
    (cln_call.op = "check" /\ cln_call.pc = "idle")
       => \A status \in cln_call.listed : cln_call.result = C26_Expected[status]

\* the check of an expired invoice has returned Unpaid
C26_Witness ==
    /\ cln_call.op = "check"
    /\ cln_call.pc = "idle"
    /\ cln_call.listed = {"expired"}
    /\ cln_call.result = "Unpaid"

\* the states the claim gives for the node's payment statuses
C27_Expected == [complete |-> "Paid", pending |-> "Pending", failed |-> "Failed",
                 none |-> "Unknown"]

\* C27: the state check_outgoing_payment reports is the node's status of the
\* payment mapped complete to Paid, pending to Pending, failed to Failed, and
\* Unknown when (and only when) the node lists no payment; the status of the
\* make_payment response is the status of the node's Pay answer mapped the
\* same way; Unpaid is never reported.
C27_OutgoingStatusMapping ==
    [][\A c \in Callers :
          /\ (melt[c].pc = "listpays" /\ melt'[c].pc # "listpays")
                => \/ melt'[c].result = "Lightning" /\ melt'[c].status = "none"
                   \/ melt'[c].status = C27_Expected[pays]
          /\ (melt[c].pc = "pay" /\ melt'[c].pc = "idle")
                => \/ melt'[c].result = "Lightning"
                   \/ pays' # "none" /\ melt'[c].result = C27_Expected[pays']
          /\ melt'[c].status # "Unpaid"
          /\ melt'[c].result # "Unpaid"]_vars

\* one call's check found no payment and its Pay request was answered
\* failed; another call's check then found the failed payment and its Pay
\* request was answered complete
C27_Witness ==
    \E c, d \in Callers :
        /\ melt[c].pc = "idle" /\ melt[c].status = "Unknown"
        /\ melt[c].result = "Failed"
        /\ melt[d].pc = "idle" /\ melt[d].status = "Failed"
        /\ melt[d].result = "Paid"

\* the calls that have an RPC in flight on the shared client
RpcInFlight ==
    {c \in Callers : melt[c].pc \in {"listpays", "pay"}}
       \cup {c \in {ClnCaller} : cln_call.pc \in {"invoice", "listinvoices"}}

\* the calls that wait for the client lock
WaitsForClient ==
    {c \in Callers : melt[c].pc \in {"check_lock", "pay_lock"}}
       \cup {c \in {ClnCaller} : cln_call.pc = "lock"}

\* C28: at most one RPC is in flight on the shared client, its caller holds
\* the client lock, and a call that waits for the lock does not hold it
\* (make_payment, after its status check, does not wait for itself).
C28_OneRpcInFlight ==
    /\ Cardinality(RpcInFlight) <= 1
    /\ RpcInFlight \subseteq cln_client
    /\ WaitsForClient \cap cln_client = {}

\* a make_payment has its Pay request in flight, after its status check,
\* while another make_payment and an incoming-side call wait for the lock
C28_Witness ==
    /\ \E c, d \in Callers :
          /\ melt[c].pc = "pay" /\ melt[c].status = "Unknown"
          /\ melt[d].pc \in {"check_lock", "pay_lock"}
    /\ cln_call.pc = "lock"

\* C25: the wallet-backed check_incoming_payment_status returns the empty
\* list only for a quote that has not been paid: a quote that is unpaid at the
\* upstream mint exists whenever the empty list is returned (a paid quote,
\* minted or not, gets its confirmation).
C25_EmptyOnlyWhenUnpaid ==
    (response.op = "check" /\ response.result = "Empty")
       => \E q \in Quotes : mint[q] = "Unpaid"

\* the remote call of the make_payment that has returned has failed: the
\* request did not get through, or the service answered with an error status
\* or with a body that is no JSON
RemoteFailed ==
    \/ wallet_pay.result = "Lightning"
    \/ \E body \in wallet_pay.payment_proof : body[2] # "Json2xx"

\* C29: a make_payment with a custom option that has returned has sent one
\* query (the number of queries sent is the number of such calls); a Paid
\* response carries the response body of its own query as proof, a lookup id
\* given out for it and a total of 1; a call whose remote call failed has
\* returned an error and not Paid.
C29_OneQueryPaidOnlyOnSuccess ==
    (wallet_pay.op = "make_payment" /\ wallet_pay.pc = "idle"
        /\ wallet_pay.result # "PanicUnimplemented")
       => /\ remote_queries # << >>
          /\ remote_queries[Len(remote_queries)] = wallet_pay.request
          /\ wallet_pay.result = "Paid"
                => /\ \E body \in wallet_pay.payment_proof :
                          body[1] = wallet_pay.request
                   /\ wallet_pay.payment_lookup_id \subseteq issued_ids
                   /\ wallet_pay.payment_lookup_id # {}
                   /\ wallet_pay.total_spent = {1}
          /\ RemoteFailed => wallet_pay.result = "Lightning"

\* C30: an outgoing operation of the wallet adapter that fails returns an
\* error value: make_payment with an option that is not the custom one and
\* check_outgoing_payment return without a panic.
C30_OutgoingFailuresAreErrors ==
    wallet_pay.result \notin {"PanicUnimplemented", "PanicTodo"}

\* C34: a notification with status expired is never yielded, and the cursor
\* is advanced on it as on every notification: the loop does not poll again
\* with a cursor it had when it received an expired notification.
C34_ExpiredSkippedCursorAdvanced ==
    /\ \A k \in 1..Len(yielded) : invoices[yielded[k].invoice].status # "expired"
    /\ Idx(stream.last_pay_idx) \notin stream.expired_at

\* C39: the two copies of cents_to_msats return the same value for the same
\* cents and the same price > 0.
C39_CopiesAgree ==
    \A wallet_msats \in conv.wallet : \A cln_msats \in conv.cln :
        wallet_msats = cln_msats

\* both copies have converted an amount whose quotient is not a whole number
\* of satoshis, so that both have rounded up
C39_Witness ==
    /\ conv.wallet # {}
    /\ conv.cln # {}
    /\ conv.price > 0
    /\ MsatsQuotRem(conv.cents, conv.price).q % 1000 # 0

\* C35: the stream and check_incoming_payment_status together confirm a
\* quote at most once: a quote has at most one event and confirmation in all.
C35_ConfirmedAtMostOnce ==
    \A q \in Quotes :
        Cardinality({i \in 1..Len(events) : events[i].quote = q})
           + Cardinality({c \in confirmations : c.quote = q}) <= 1

\* a status check and a wait task have both asked the upstream mint to mint
\* the same paid quote: the check was served, the task resolved without an event
C35_Witness ==
    \E q \in Quotes :
        /\ Confirmed(q)
        /\ \E t \in 1..Len(tasks) : tasks[t].quote = q /\ tasks[t].st = "None"

\* the converse: the task was served and delivered, the check was refused
C35_WitnessTaskFirst ==
    \E q \in Quotes :
        /\ Delivered(q)
        /\ response = Response("check", "CustomId", "Lightning")

C36_FlagFalseCancelNoEffect ==
    /\ [](wait_invoice_active = FALSE)
    /\ [][cancelled_at' # cancelled_at
            => UNCHANGED <<reader, lock, tasks, pending_mints, events, mint>>]_vars

\* cancel_wait_invoice was called while the stream was being pulled, and the
\* stream has delivered an event after the call
C36_Witness ==
    /\ reader # "none"
    /\ \E n \in cancelled_at : Len(events) > n

\* C33: every task of the pool eventually resolves; every task of the pool
\* is eventually taken out of it; and a stream, unless the reader drops it,
\* comes to idle in its sleep with the pool empty (it has no step that ends
\* it).
C33_PoolEventuallyEmptied ==
    /\ \A t \in TaskIds : (t \in pending_mints)
                               ~> (t \in 1..Len(tasks) /\ tasks[t].st # "running")
    /\ \A t \in TaskIds : (t \in pending_mints) ~> (t \notin pending_mints)
    /\ (reader # "none") ~> (reader = "none" \/ (pending_mints = {} /\ reader = "sleep"))

\* the stream idles with the pool empty after it has taken out a task that
\* resolved without a confirmation and one that resolved with one
C33_Witness ==
    /\ pending_mints = {}
    /\ reader = "sleep"
    /\ \E t, u \in Taken_ids : tasks[t].st = "None" /\ tasks[u].st = "Some"

\* what get_search did for a request of the log
Untouched(a) == ~a.quote_requested /\ ~a.melt_requested /\ ~a.spent

\* C31: a request with no X-Cashu header or with a token whose value is not
\* 1 is answered 402 with the payment request for 1 xsr in X-Cashu, a text
\* that is no token is answered 400, and for none of them (nor for any
\* request that is not a token of value 1) a melt quote was requested or a
\* melt executed; the handler asks for a quote only for a token of value 1.
C31_SpendsOnlyExactlyOne ==
    /\ \A i \in 1..Len(search_log) :
           LET a == search_log[i]
           IN /\ (a.request.header = "absent"
                     \/ (a.request.header = "token" /\ a.request.value # 1))
                 => /\ a.status = 402
                    /\ a.x_cashu = {[unit |-> "xsr", amount |-> 1]}
                    /\ Untouched(a)
              /\ a.request.header = "not_token" => a.status = 400 /\ Untouched(a)
              /\ ~(a.request.header = "token" /\ a.request.value = 1) => Untouched(a)
    /\ search.pc # "idle" => search.request.header = "token" /\ search.request.value = 1

\* a request without a header, one with a token of another value and one
\* with a text that is no token have been answered
C31_Witness ==
    /\ \E i \in 1..Len(search_log) : search_log[i].request.header = "absent"
    /\ \E i \in 1..Len(search_log) :
           /\ search_log[i].request.header = "token"
           /\ search_log[i].request.value > 1
    /\ \E i \in 1..Len(search_log) : search_log[i].request.header = "not_token"

\* C37: a request answered with another status than 200 has not had its
\* token spent.
C37_NonOkUnspent ==
    \A i \in 1..Len(search_log) :
        search_log[i].status # 200 => ~search_log[i].spent

\* the stored count, 0 when there is none
StoredOr0(count) == IF count = {} THEN 0 ELSE CHOOSE n \in count : TRUE

\* the add_search tasks that are at pc
AddSearchAt(pc) == {t \in 1..Len(add_search_tasks) : add_search_tasks[t].pc = pc}

====
